---- MODULE Spec2Model ----
(***************************************************************************)
(* A model of the voice-capture-to-task pipeline of FlowState              *)
(* (src/src-tauri/src): the Whisper model cache (whisper.rs) with the      *)
(* commands that use it (commands.rs), the task store (database.rs) and    *)
(* the background worker of the native app (native_main.rs).               *)
(*                                                                         *)
(* The specifications share the module, each over its own variables:      *)
(*   SpecCache     WhisperCache, delete_whisper_model, the model files     *)
(*   SpecDb        the task table and the functions of database.rs         *)
(*   SpecApp       recording, stop_recording's worker thread and           *)
(*                 FlowStateApp::update; SpecAppFair adds their scheduling *)
(*   SpecParser    the action extractor of ollama.rs                       *)
(*   SpecDownload  the download of a model file                            *)
(*   SpecVoice     process_voice_recording from the transcription on: the  *)
(*                 resampling, the removal check and parse_transcript      *)
(***************************************************************************)
EXTENDS Integers, Sequences, FiniteSets, TLC

(***************************************************************************)
(* Bounds of the model.                                                    *)
(***************************************************************************)
NumCallers == 2
MaxLoads == 3

(***************************************************************************)
(* whisper.rs: WhisperModelSize and its tables.                            *)
(***************************************************************************)
\* The sizes the commands of the model are called with.
ModelSizes == {"Tiny", "Base"}

filename(size) ==
    CASE size = "Tiny" -> "ggml-tiny.bin"
      [] size = "Base" -> "ggml-base.bin"
      [] size = "Small" -> "ggml-small.bin"
      [] size = "Medium" -> "ggml-medium.bin"
      [] size = "Large" -> "ggml-large-v3.bin"

\* The model names a command may be given: from_str lower-cases the name and
\* matches it against the five sizes; anything else is None (here "").
ModelNames == {"tiny", "Tiny", "BASE", "base", "small", "huge", ""}

from_str(name) ==
    CASE name \in {"tiny", "Tiny"} -> "Tiny"
      [] name \in {"base", "BASE"} -> "Base"
      [] name \in {"small"} -> "Small"
      [] name \in {"medium"} -> "Medium"
      [] name \in {"large"} -> "Large"
      [] OTHER -> ""

Callers == 1..NumCallers

VARIABLES
    slot,        \* WhisperCache.engine's contents: <<>> (None) or <<[size, ctx]>>
    poisoned,    \* the poison flag of the engine mutex
    lockHolder,  \* the caller holding the engine mutex, 0 when it is free
    file,        \* per size, the model file: "absent" or "complete"
    nextCtx,     \* the number the next loaded WhisperContext gets
    cpc,         \* per caller, its position in transcribe_audio
    creq,        \* per caller, the size it asked for
    cres,        \* per caller, the result of its get_or_create
    cslot,       \* per caller, while it loads: the slot as it was when it locked
    dpc,         \* position of the delete_whisper_model command
    dsize,       \* the size it deletes
    dres,        \* its result
    panicCtx,    \* the context ids that were in the slot when a holder last panicked
    genLoads     \* the loads that succeeded since the slot was last emptied by
                 \* clear, by the eviction of another size or by a panic (0, 1, many)

cacheVars == <<slot, poisoned, lockHolder, file, nextCtx, cpc, creq, cres, cslot,
               dpc, dsize, dres, panicCtx, genLoads>>

VARIABLES
    tasks,        \* the rows of table tasks
    nextId,       \* the next AUTOINCREMENT id
    now,          \* the clock, in seconds
    connLock,     \* Database.conn: "free", or "held" by find_and_complete_task
    connPoisoned, \* the poison flag of Database.conn
    fpc,          \* position of the find_and_complete_task call in progress
    ftext,        \* its argument
    frow,         \* the row its SELECT returned: <<>> or <<row>>
    parsed,       \* the parser's tasks that process_voice_log has yet to apply
    dbRet         \* what the last call of a database function returned: "ok"
                  \* (Ok), "some" (Ok(Some)), "none" (Ok(None)), "err" (Err),
                  \* "panic", or "never" when it does not return

dbVars == <<tasks, nextId, now, connLock, connPoisoned, fpc, ftext, frow, parsed,
            dbRet>>

VARIABLES
    is_recording,   \* FlowStateApp.is_recording
    is_processing,  \* FlowStateApp.is_processing
    processing_rx,  \* FlowStateApp.processing_rx: "none" or "some"
    error_message,  \* FlowStateApp.error_message: "" (None) or what it reports
    status_message, \* FlowStateApp.status_message: "" (None) or what it shows
    chan,           \* the events sent on the channel and not yet received
    sent,           \* every event the current worker has sent, in order
    wpc,            \* position of the worker thread of stop_recording
    ui,             \* the thread of update: "running", "blocked" or "panicked"
    added,          \* the add_task calls update has made
    utterances      \* the worker threads spawned so far

VARIABLES
    audio_stream,      \* FlowStateApp.audio_stream: "none" or "some"
    input_sample_rate, \* FlowStateApp.input_sample_rate
    audio_buffer,      \* FlowStateApp.audio_buffer, the batches appended to it
    audio_data,        \* the copy of the buffer stop_recording last made
    captured,          \* the batches the callback appended since the last start
    recording_start    \* FlowStateApp.recording_start: "none" or "some"

captureVars == <<audio_stream, input_sample_rate, audio_buffer, audio_data,
                 captured, recording_start>>

appVars == <<is_recording, is_processing, processing_rx, error_message,
             status_message, chan, sent, wpc, ui, added, utterances,
             captureVars>>

VARIABLES
    transcript,  \* the utterance text given to parse_transcript_to_actions
    extracted,   \* the Vec<TaskAction> it returned
    ppc          \* "none", "called" with the transcript, or "returned"

parserVars == <<transcript, extracted, ppc>>

VARIABLES
    model_file,       \* per size, the file at the model's path: "absent",
                      \* "partial" (created, not all of it written) or "complete"
    dlpc,             \* position of the download: "idle", "send", "stream" or
                      \* "panicked" (its thread has unwound)
    dlsize,           \* the size it downloads
    dlvia,            \* "command" (whisper::download_model) or "native"
                      \* (the thread of FlowStateApp::start_download)
    downloaded,       \* the chunks written to the file
    dlresult,         \* how the last download ended: "none", "ok" or its error
    download_completed, \* DownloadState.completed
    loaded_file,      \* what get_or_create last gave the loader: "none", or the
                      \* state of the file it loaded
    available_models  \* FlowStateApp.available_models: per size, installed or not

downloadVars == <<model_file, dlpc, dlsize, dlvia, downloaded, dlresult,
                  download_completed, available_models, loaded_file>>

VARIABLES
    vpc,           \* position of process_voice_recording: "idle", "transcribed",
                   \* "removed", "await_tags", "await_generate" or "parsed"
    in_samples,    \* the samples resample was last given
    in_rate,       \* their rate, 0 when there are none
    out_rate,      \* the rate asked for
    resampled,     \* what it returned
    native_last,   \* the worker's last resampling: the length of the recording,
                   \* that of the output and the source index of the last output
    temp_audio,    \* the file save_audio_file made for the last call of
                   \* process_voice_recording: "none", "present" or "removed"
    use_ollama,    \* the value parse_transcript read from USE_OLLAMA
    removal_texts, \* the texts find_and_delete_task was called with
    requests,      \* the requests try_ollama_parse has sent
    remote_error,  \* the Err of try_ollama_parse, "" when there is none
    parse_result   \* what parse_transcript returned: none, Ok(tasks) or Err

voiceVars == <<vpc, in_samples, in_rate, out_rate, resampled, native_last,
               temp_audio, use_ollama,
               removal_texts, requests, remote_error, parse_result>>

vars == <<cacheVars, dbVars, appVars, parserVars, downloadVars, voiceVars>>

(***************************************************************************)
(* Each specification moves its own variables and keeps the others at the  *)
(* values they have before the first command.                              *)
(***************************************************************************)
InitDb ==
    /\ tasks = {}
    /\ nextId = 1
    /\ now = 0
    /\ connLock = "free"
    /\ connPoisoned = FALSE
    /\ fpc = "none"
    /\ ftext = <<>>
    /\ frow = <<>>
    /\ parsed = <<>>
    /\ dbRet = "none"

InitExtractor ==
    /\ transcript = <<>>
    /\ extracted = <<>>
    /\ ppc = "none"

\* No command is running and resample has not been called.
InitPipeline ==
    /\ vpc = "idle"
    /\ in_samples = <<>>
    /\ in_rate = 0
    /\ out_rate = 0
    /\ resampled = <<>>
    /\ native_last = [len |-> 0, out |-> 0, idx |-> -1]
    /\ temp_audio = "none"
    /\ use_ollama = <<>>
    /\ removal_texts = <<>>
    /\ requests = <<>>
    /\ remote_error = ""
    /\ parse_result = [kind |-> "none", tasks |-> <<>>]

\* No download is running; FlowStateApp::default 121-133 has looked for the
\* files.
InitDownloader(files) ==
    /\ model_file = files
    /\ dlpc = "idle"
    /\ dlsize = ""
    /\ dlvia = ""
    /\ downloaded = 0
    /\ dlresult = "none"
    /\ download_completed = FALSE
    /\ loaded_file = "none"
    /\ available_models = [size \in DOMAIN files |-> files[size] # "absent"]

NoFiles == [size \in ModelSizes |-> "absent"]

InitApp ==
    /\ is_recording = FALSE
    /\ is_processing = FALSE
    /\ processing_rx = "none"
    /\ error_message = ""
    /\ status_message = ""
    /\ chan = <<>>
    /\ sent = <<>>
    /\ wpc = "none"
    /\ ui = "running"
    /\ added = 0
    /\ utterances = 0
    /\ audio_stream = "none"
    /\ input_sample_rate = 48000
    /\ audio_buffer = <<>>
    /\ audio_data = <<>>
    /\ captured = <<>>
    /\ recording_start = "none"

NoCtx == [id |-> 0, of |-> ""]
NoResult == [kind |-> "none", ctx |-> NoCtx, file |-> ""]

Ok(ctx) == [kind |-> "ok", ctx |-> ctx, file |-> ""]
Err(kind, f) == [kind |-> kind, ctx |-> NoCtx, file |-> f]

(***************************************************************************)
(* WhisperCache (whisper.rs 15-77).                                        *)
(***************************************************************************)

\* Mutants of RecoverSlot: a recovery that keeps what the slot held, and a
\* lock that empties the slot whether poisoned or not.
RecoverSlotKeep(isPoisoned, s) == s

RecoverSlotAlways(isPoisoned, s) == <<>>

\* get_or_create 29-34 and clear 71-74: a poisoned lock is taken anyway and
\* the slot is reset; the poison flag itself is never cleared (there is no
\* clear_poison call), so every later lock() is an Err(poisoned) again.
RecoverSlot(isPoisoned, s) == IF isPoisoned THEN <<>> ELSE s

\* Mutant of CacheHit: the cached size is not compared.
CacheHitAnySize(s, size) == Len(s) = 1

\* get_or_create 37-42: the slot holds the requested size.
CacheHit(s, size) == Len(s) = 1 /\ s[1].size = size

\* get_or_create 61-62: the slot after a successful load.
StoreLoaded(size, ctx) == <<[size |-> size, ctx |-> ctx]>>

SlotIds(s) == {s[i].ctx.id : i \in 1..Len(s)}

\* get_or_create 27-52: lock (recovering from poison), look the size up,
\* check that the model file exists.  A hit and a missing file return at
\* once, which drops the guard; otherwise the caller goes on to load with
\* the lock held.
GocLock(c, size) ==
    /\ cpc[c] = "idle"
    /\ lockHolder = 0
    /\ LET s == RecoverSlot(poisoned, slot) IN
       /\ slot' = s
       /\ creq' = [creq EXCEPT ![c] = size]
       /\ IF CacheHit(s, size)
          THEN /\ cpc' = [cpc EXCEPT ![c] = "have"]
               /\ cres' = [cres EXCEPT ![c] = Ok(s[1].ctx)]
               /\ UNCHANGED <<lockHolder, genLoads, cslot>>
          ELSE IF file[size] = "absent"
          THEN /\ cpc' = [cpc EXCEPT ![c] = "err"]
               /\ cres' = [cres EXCEPT ![c] = Err("not_found", filename(size))]
               /\ UNCHANGED <<lockHolder, genLoads, cslot>>
          ELSE /\ cpc' = [cpc EXCEPT ![c] = "load"]
               /\ lockHolder' = c
               /\ cslot' = [cslot EXCEPT ![c] = slot]
               /\ UNCHANGED <<cres, genLoads>>
    /\ UNCHANGED <<poisoned, file, nextCtx, dpc, dsize, dres, panicCtx>>
    /\ UNCHANGED <<dbVars, appVars, parserVars,
                   downloadVars, voiceVars>>

\* Mutant of GocLoadOk: the guard is kept while the caller uses the context.
GocLoadOkKeepsGuard(c) ==
    /\ cpc[c] = "load"
    /\ cslot' = [cslot EXCEPT ![c] = <<>>]
    /\ file[creq[c]] # "absent"
    /\ nextCtx <= MaxLoads
    /\ LET ctx == [id |-> nextCtx, of |-> creq[c]] IN
       /\ slot' = StoreLoaded(creq[c], ctx)
       /\ cres' = [cres EXCEPT ![c] = Ok(ctx)]
       /\ genLoads' = IF Len(slot) = 1 THEN 1 ELSE IF genLoads = 0 THEN 1 ELSE 2
    /\ nextCtx' = nextCtx + 1
    /\ lockHolder' = c
    /\ cpc' = [cpc EXCEPT ![c] = "have"]
    /\ UNCHANGED <<poisoned, file, creq, dpc, dsize, dres, panicCtx>>
    /\ UNCHANGED <<dbVars, appVars, parserVars,
                   downloadVars, voiceVars>>

\* get_or_create 56-65: WhisperContext::new_with_params succeeded; the new
\* context replaces the slot's contents and is returned.
GocLoadOk(c) ==
    /\ cpc[c] = "load"
    /\ cslot' = [cslot EXCEPT ![c] = <<>>]
    /\ file[creq[c]] # "absent"
    /\ nextCtx <= MaxLoads
    /\ LET ctx == [id |-> nextCtx, of |-> creq[c]] IN
       /\ slot' = StoreLoaded(creq[c], ctx)
       /\ cres' = [cres EXCEPT ![c] = Ok(ctx)]
       /\ genLoads' = IF Len(slot) = 1 THEN 1 ELSE IF genLoads = 0 THEN 1 ELSE 2
    /\ nextCtx' = nextCtx + 1
    /\ lockHolder' = 0
    /\ cpc' = [cpc EXCEPT ![c] = "have"]
    /\ UNCHANGED <<poisoned, file, creq, dpc, dsize, dres, panicCtx>>
    /\ UNCHANGED <<dbVars, appVars, parserVars,
                   downloadVars, voiceVars>>

\* get_or_create 57-59: the path is not UTF-8 or the load fails; `?` returns
\* the error, the guard is dropped, the slot is as it was.
GocLoadErr(c) ==
    /\ cpc[c] = "load"
    /\ cslot' = [cslot EXCEPT ![c] = <<>>]
    /\ cres' = [cres EXCEPT ![c] = Err("load_failed", "")]
    /\ lockHolder' = 0
    /\ cpc' = [cpc EXCEPT ![c] = "err"]
    /\ UNCHANGED <<slot, poisoned, file, nextCtx, creq, dpc, dsize,
                   dres, panicCtx, genLoads>>
    /\ UNCHANGED <<dbVars, appVars, parserVars,
                   downloadVars, voiceVars>>

\* A panic while the guard is held (mid-load): unwinding drops the guard,
\* which poisons the mutex; the slot keeps what it held.
GocLoadPanic(c) ==
    /\ cpc[c] = "load"
    /\ cslot' = [cslot EXCEPT ![c] = <<>>]
    /\ poisoned' = TRUE
    /\ panicCtx' = SlotIds(slot)
    /\ genLoads' = 0
    /\ cres' = [cres EXCEPT ![c] = Err("panic", "")]
    /\ lockHolder' = 0
    /\ cpc' = [cpc EXCEPT ![c] = "err"]
    /\ UNCHANGED <<slot, file, nextCtx, creq, dpc, dsize, dres>>
    /\ UNCHANGED <<dbVars, appVars, parserVars,
                   downloadVars, voiceVars>>

\* commands.rs 217-218 / 267-275: the handle is used for transcription with
\* the cache lock released; the Arc is dropped when the command returns.
Transcribe(c) ==
    /\ cpc[c] = "have"
    /\ cpc' = [cpc EXCEPT ![c] = "idle"]
    /\ creq' = [creq EXCEPT ![c] = ""]
    /\ cres' = [cres EXCEPT ![c] = NoResult]
    /\ UNCHANGED <<slot, poisoned, lockHolder, file, nextCtx, cslot, dpc, dsize,
                   dres, panicCtx, genLoads>>
    /\ UNCHANGED <<dbVars, appVars, parserVars,
                   downloadVars, voiceVars>>

\* commands.rs 218 / 270-275: transcribe_with_context (whisper.rs 154-216)
\* returns Err for the context the caller holds; it works on the caller's Arc
\* and does not touch the cache.  The error is returned by ReturnErr.
TranscribeErr(c) ==
    /\ cpc[c] = "have"
    /\ cpc' = [cpc EXCEPT ![c] = "err"]
    /\ cres' = [cres EXCEPT ![c].kind = "transcribe_failed"]
    /\ UNCHANGED <<slot, poisoned, lockHolder, file, nextCtx, creq, cslot, dpc,
                   dsize, dres, panicCtx, genLoads>>
    /\ UNCHANGED <<dbVars, appVars, parserVars,
                   downloadVars, voiceVars>>

\* commands.rs 217 / 267 / 275: `?` returns the error to the frontend.
ReturnErr(c) ==
    /\ cpc[c] = "err"
    /\ cpc' = [cpc EXCEPT ![c] = "idle"]
    /\ creq' = [creq EXCEPT ![c] = ""]
    /\ cres' = [cres EXCEPT ![c] = NoResult]
    /\ UNCHANGED <<slot, poisoned, lockHolder, file, nextCtx, cslot, dpc, dsize,
                   dres, panicCtx, genLoads>>
    /\ UNCHANGED <<dbVars, appVars, parserVars,
                   downloadVars, voiceVars>>

\* WhisperCache::clear 69-76, on the slot.
clear(isPoisoned, s) == <<>>

\* delete_whisper_model 197-201: from_str, then whisper_cache.clear().
DeleteClear(name) ==
    /\ dpc = "idle"
    /\ IF from_str(name) = ""
       THEN /\ dpc' = "returned"
            /\ dres' = "invalid_name"
            /\ UNCHANGED <<slot, dsize, genLoads>>
       ELSE /\ from_str(name) \in ModelSizes
            /\ lockHolder = 0
            /\ slot' = clear(poisoned, slot)
            /\ genLoads' = 0
            /\ dsize' = from_str(name)
            /\ dpc' = "cleared"
            /\ UNCHANGED dres
    /\ UNCHANGED <<poisoned, lockHolder, file, nextCtx, cpc, creq, cres, cslot,
                   panicCtx>>
    /\ UNCHANGED <<dbVars, appVars, parserVars,
                   downloadVars, voiceVars>>

\* delete_model 322-331: remove the file if it exists.
DeleteFile ==
    /\ dpc = "cleared"
    /\ \/ /\ file' = [file EXCEPT ![dsize] = "absent"]
          /\ dres' = "ok"
       \/ /\ file[dsize] # "absent"
          /\ dres' = "remove_failed"
          /\ UNCHANGED file
    /\ dpc' = "returned"
    /\ UNCHANGED <<slot, poisoned, lockHolder, nextCtx, cpc, creq, cres, cslot,
                   dsize, panicCtx, genLoads>>
    /\ UNCHANGED <<dbVars, appVars, parserVars,
                   downloadVars, voiceVars>>

DeleteReturn ==
    /\ dpc = "returned"
    /\ dpc' = "idle"
    /\ dres' = "none"
    /\ dsize' = ""
    /\ UNCHANGED <<slot, poisoned, lockHolder, file, nextCtx, cpc, creq, cres, cslot,
                   panicCtx, genLoads>>
    /\ UNCHANGED <<dbVars, appVars, parserVars,
                   downloadVars, voiceVars>>

InitEngine ==
    /\ slot = <<>>
    /\ poisoned = FALSE
    /\ lockHolder = 0
    /\ file \in [ModelSizes -> {"absent", "complete"}]
    /\ nextCtx = 1
    /\ cpc = [c \in Callers |-> "idle"]
    /\ creq = [c \in Callers |-> ""]
    /\ cres = [c \in Callers |-> NoResult]
    /\ cslot = [c \in Callers |-> <<>>]
    /\ dpc = "idle"
    /\ dsize = ""
    /\ dres = "none"
    /\ panicCtx = {}
    /\ genLoads = 0

InitCache ==
    /\ InitEngine /\ InitDb /\ InitApp /\ InitExtractor /\ InitDownloader(NoFiles)
    /\ InitPipeline

NextCache ==
    \/ \E c \in Callers, size \in ModelSizes : GocLock(c, size)
    \/ \E c \in Callers : GocLoadOk(c)
    \/ \E c \in Callers : GocLoadErr(c)
    \/ \E c \in Callers : GocLoadPanic(c)
    \/ \E c \in Callers : Transcribe(c)
    \/ \E c \in Callers : TranscribeErr(c)
    \/ \E c \in Callers : ReturnErr(c)
    \/ \E name \in ModelNames : DeleteClear(name)
    \/ DeleteFile
    \/ DeleteReturn

SpecCache == InitCache /\ [][NextCache]_vars

(***************************************************************************)
(* Claims about the cache, checked under SpecCache.                        *)
(***************************************************************************)

\* C1 (as claimed): at most one load per generation of the cache.  Between
\* two events that empty or replace the slot (clear, the eviction of another
\* size, a panic that poisons the lock) callers of get_or_create for the
\* cached size cause at most one successful load, so all of them get the
\* one context that load produced.
C1_AtMostOneLoad == genLoads <= 1

\* C2: the slot holds at most one (size, context) pair and its context was
\* loaded from the file of its size; a caller that got a context got one
\* of the size it asked for (never the context of the size cached before),
\* and when get_or_create returns it the slot holds exactly that pair.
C2_SlotOfOneSize ==
    /\ Len(slot) <= 1
    /\ \A i \in 1..Len(slot) : slot[i].ctx.of = slot[i].size
    /\ \A c \in Callers : cpc[c] = "have" => cres[c].ctx.of = creq[c]

C2_ReturnStep ==
    \A c \in Callers :
        (cpc[c] # "have" /\ cpc'[c] = "have") =>
            slot' = <<[size |-> creq'[c], ctx |-> cres'[c].ctx]>>

C2_Eviction == [](C2_SlotOfOneSize) /\ [][C2_ReturnStep]_vars

\* C2's case: a caller still holds the context of one size while another
\* caller has got the context of the other size, loaded later, and the
\* slot holds the later pair only.
C2_Witness ==
    \E c1, c2 \in Callers :
        /\ cpc[c1] = "have" /\ cpc[c2] = "have"
        /\ creq[c1] # creq[c2]
        /\ cres[c1].ctx.id < cres[c2].ctx.id
        /\ slot = <<[size |-> creq[c2], ctx |-> cres[c2].ctx]>>

\* C3: on a poisoned lock get_or_create and clear go ahead, and the slot is
\* empty before it is used: a get_or_create never hits, it fails for a
\* missing file or goes on to load as on an empty cache, and a context it
\* returns is never one the slot held when the holder panicked.
C3_LockStep ==
    \A c \in Callers :
        (poisoned /\ lockHolder = 0 /\ cpc[c] = "idle" /\ cpc'[c] # "idle") =>
            /\ slot' = <<>>
            /\ IF file[creq'[c]] = "absent"
               THEN cpc'[c] = "err" /\ cres'[c].kind = "not_found"
               ELSE cpc'[c] = "load"

C3_ReturnStep ==
    \A c \in Callers :
        (poisoned /\ cpc[c] # "have" /\ cpc'[c] = "have") =>
            cres'[c].ctx.id \notin panicCtx

C3_ClearStep == (poisoned /\ dpc = "idle" /\ dpc' = "cleared") => slot' = <<>>

C3_PoisonRecovery == [][C3_LockStep /\ C3_ReturnStep /\ C3_ClearStep]_vars

\* C3's case: the holder panicked while the slot held a context, and a
\* later get_or_create has returned a context to its caller.
C3_Witness ==
    /\ poisoned
    /\ panicCtx # {}
    /\ \E c \in Callers : cpc[c] = "have" /\ cres[c].ctx.id \notin panicCtx

\* C4 (as claimed): a get_or_create that fails for a missing file names the
\* file, loads nothing and leaves the slot as it found it, and so does one
\* whose load fails.
C4_FailStep(needUnpoisoned) ==
    \A c \in Callers :
        /\ (cpc[c] = "idle" /\ cpc'[c] = "err" /\ (needUnpoisoned => ~poisoned)) =>
              /\ cres'[c] = Err("not_found", filename(creq'[c]))
              /\ nextCtx' = nextCtx
              /\ slot' = slot
        /\ (cpc[c] = "load" /\ cpc'[c] = "err" /\ cres'[c].kind = "load_failed"
              /\ (needUnpoisoned => ~poisoned)) =>
              /\ nextCtx' = nextCtx
              /\ slot' = cslot[c]

C4_Original == [][C4_FailStep(FALSE)]_vars

\* C4 (amended): the same, for a lock that is not poisoned; on a poisoned
\* lock the failing call leaves the slot empty.
C4_PoisonedFailStep ==
    \A c \in Callers :
        (poisoned /\ cpc[c] \in {"idle", "load"} /\ cpc'[c] = "err") => slot' = <<>>

C4_MissingFile == [][C4_FailStep(TRUE) /\ C4_PoisonedFailStep]_vars

\* C4's case: the lock is not poisoned, a call has just failed for a missing
\* file and the model of the other size is still cached.
C4_Witness ==
    /\ ~poisoned
    /\ \E c \in Callers :
          /\ cpc[c] = "err"
          /\ cres[c].kind = "not_found"
          /\ Len(slot) = 1
          /\ slot[1].size # creq[c]

\* C5 (as claimed): when delete_whisper_model has returned Ok the slot does
\* not hold the deleted size.
C5_NoStaleModel == (dpc = "returned" /\ dres = "ok") => ~CacheHit(slot, dsize)

\* The contexts that are alive: the one the slot refers to and those whose
\* Arc a caller still holds for its transcription.
C24_Resident ==
    SlotIds(slot) \cup {cres[c].ctx.id : c \in {d \in Callers : cpc[d] = "have"}}

\* C24 (as claimed): at most one engine instance is resident at any time.
\* In every reachable state, counting the instance in the cache slot and the
\* instances still referenced by callers that obtained a handle earlier, at
\* most one loaded model instance exists.
C24_AtMostOneResident == Cardinality(C24_Resident) <= 1

\* C26 (as claimed): the cache keeps caching after a poison recovery.  Once a
\* get_or_create has recovered from the poisoned lock and loaded a size (the
\* slot holds a context that was loaded after the panic), a following
\* get_or_create for that size, with no clear in between, returns that same
\* context without loading again.
C26_HitAfterRecovery ==
    [][\A c \in Callers :
          (/\ poisoned
           /\ Len(slot) = 1
           /\ slot[1].ctx.id \notin panicCtx
           /\ cpc[c] = "idle" /\ cpc'[c] # "idle"
           /\ creq'[c] = slot[1].size)
          => (/\ cpc'[c] = "have"
              /\ cres'[c] = Ok(slot[1].ctx)
              /\ slot' = slot
              /\ nextCtx' = nextCtx)]_vars

\* The step in which the transcription fails for caller c.
C31_Fails(c) ==
    cpc[c] = "have" /\ cpc'[c] = "err" /\ cres'[c].kind = "transcribe_failed"

C31_FailStep ==
    \A c \in Callers : C31_Fails(c) => (slot' = slot /\ poisoned' = poisoned)

\* Caller d has just been failed by the engine and the slot holds the handle
\* it used.
C31_FailedOnCached(d) ==
    /\ cpc[d] = "err"
    /\ cres[d].kind = "transcribe_failed"
    /\ Len(slot) = 1
    /\ slot[1] = [size |-> creq[d], ctx |-> cres[d].ctx]

C31_NextStep ==
    \A c, d \in Callers :
        (/\ C31_FailedOnCached(d)
         /\ cpc[c] = "idle" /\ cpc'[c] # "idle"
         /\ creq'[c] = creq[d])
        => (/\ cpc'[c] = "have"
            /\ cres'[c] = Ok(cres[d].ctx)
            /\ slot' = slot)

\* C31 (as claimed): an engine failure leaves the cache intact.  When
\* transcribe_with_context returns an error for a handle obtained from the
\* cache, the slot still holds the same (size, handle) pair, and the next
\* get_or_create for that size is a cache hit with that handle.
C31_EngineFailureKeepsCache == [][C31_FailStep /\ C31_NextStep]_vars

\* The engine mutex is held by a caller only while it loads.
C30_HeldOnlyToLoad == lockHolder # 0 => cpc[lockHolder] = "load"

\* While a caller transcribes and no caller loads, the lock is free: any
\* idle caller's get_or_create and the clear of delete_whisper_model are
\* enabled, whatever the size.
C30_OthersGoOn ==
    (\E c \in Callers : cpc[c] = "have") /\ (\A c \in Callers : cpc[c] # "load")
        => /\ \A c \in Callers, size \in ModelSizes :
                 cpc[c] = "idle" => ENABLED GocLock(c, size)
           /\ dpc = "idle" =>
                 \A name \in ModelNames :
                     from_str(name) \in ModelSizes => ENABLED DeleteClear(name)

\* C30: the cache lock is never held across inference.  get_or_create
\* releases the engine mutex before the context is used for transcription,
\* so while one caller transcribes, another caller's get_or_create or clear
\* takes the lock without waiting for the transcription to end.
C30_LockNotHeldAcrossInference == C30_HeldOnlyToLoad /\ C30_OthersGoOn

\* C30's case: one caller transcribes with its context while another caller,
\* having locked after it, holds the lock and loads.
C30_Witness ==
    \E c1, c2 \in Callers :
        /\ cpc[c1] = "have"
        /\ cpc[c2] = "load"
        /\ lockHolder = c2

(***************************************************************************)
(* Text.  A string is a tuple of characters; a character outside ASCII is  *)
(* written by its code point ("U+0427" is the Cyrillic capital CHE).       *)
(***************************************************************************)
AsciiLowerOf ==
    ("A" :> "a") @@ ("B" :> "b") @@ ("C" :> "c") @@ ("D" :> "d") @@
    ("E" :> "e") @@ ("F" :> "f") @@ ("G" :> "g") @@ ("H" :> "h") @@
    ("I" :> "i") @@ ("J" :> "j") @@ ("K" :> "k") @@ ("L" :> "l") @@
    ("M" :> "m") @@ ("N" :> "n") @@ ("O" :> "o") @@ ("P" :> "p") @@
    ("Q" :> "q") @@ ("R" :> "r") @@ ("S" :> "s") @@ ("T" :> "t") @@
    ("U" :> "u") @@ ("V" :> "v") @@ ("W" :> "w") @@ ("X" :> "x") @@
    ("Y" :> "y") @@ ("Z" :> "z")

\* The Cyrillic letters of the texts below, upper case to lower case.
CyrillicLowerOf ==
    ("U+0427" :> "U+0447") @@ ("U+0410" :> "U+0430") @@
    ("U+0419" :> "U+0439") @@ ("U+0414" :> "U+0434") @@
    ("U+0418" :> "U+0438") @@ ("U+041C" :> "U+043C")

\* SQLite's built-in lower() and LIKE fold the case of ASCII letters only.
SqlLowerChar(ch) == IF ch \in DOMAIN AsciiLowerOf THEN AsciiLowerOf[ch] ELSE ch

SqlLower(str) == [i \in 1..Len(str) |-> SqlLowerChar(str[i])]

\* Rust's str::to_lowercase folds every letter that has a lower case.
to_lowercase(str) ==
    [i \in 1..Len(str) |->
        IF str[i] \in DOMAIN AsciiLowerOf THEN AsciiLowerOf[str[i]]
        ELSE IF str[i] \in DOMAIN CyrillicLowerOf THEN CyrillicLowerOf[str[i]]
        ELSE str[i]]

\* SQLite's LIKE: % matches any run of characters, _ any one character, any
\* other character itself, without regard to the case of ASCII letters.
RECURSIVE Like(_, _)
Like(str, pat) ==
    IF pat = <<>> THEN str = <<>>
    ELSE IF Head(pat) = "%"
    THEN Like(str, Tail(pat)) \/ (str # <<>> /\ Like(Tail(str), pat))
    ELSE /\ str # <<>>
         /\ Head(pat) = "_" \/ SqlLowerChar(Head(pat)) = SqlLowerChar(Head(str))
         /\ Like(Tail(str), Tail(pat))

\* format!("%{}%", text)
search_pattern(text) == <<"%">> \o text \o <<"%">>

Txt_BuyMilk == <<"B", "u", "y", " ", "m", "i", "l", "k">>
Txt_milk == <<"m", "i", "l", "k">>
Txt_Chai == <<"U+0427", "U+0430", "U+0439">>
Txt_50 == <<"5", "0">>
Txt_Groceries == <<"G", "r", "o", "c", "e", "r", "i", "e", "s">>

\* The texts tasks are added with, and the texts tasks are searched by.
TaskTexts ==
    {<<"b", "u", "y", " ", "m", "i", "l", "k", " ", "t", "o", "d", "a", "y">>,
     Txt_Chai}

SearchTexts == {Txt_milk, Txt_BuyMilk, Txt_Chai, <<"5", "0", "%">>}

(***************************************************************************)
(* The task store (database.rs).                                           *)
(***************************************************************************)
MaxTasks == 2
MaxClock == 1

TaskIds == 1..MaxTasks

\* A row of table tasks; completed_at is <<>> (NULL) or <<time>>.
Task(id, text, completed, created_at, completed_at) ==
    [id |-> id, text |-> text, completed |-> completed,
     created_at |-> created_at, completed_at |-> completed_at]

\* Whether sub occurs in str (str::contains).
Contains(str, sub) ==
    \E i \in 0..(Len(str) - Len(sub)) : SubSeq(str, i + 1, i + Len(sub)) = sub

\* add_task 81-84: INSERT INTO tasks (text, completed) VALUES (?1, 0); the
\* row gets the next id, created_at = datetime('now') and a NULL completed_at.
InsertedRow(id, text, time) == Task(id, text, FALSE, time, <<>>)

\* Mutant of ToggledRow: the timestamp is written whatever the new state.
ToggledRowStamped(row, time) ==
    [row EXCEPT !.completed = ~row.completed, !.completed_at = <<time>>]

\* toggle_task 122-134: the new state is the opposite of the current one;
\* completed_at is Some(now) when it becomes completed and NULL otherwise.
ToggledRow(row, time) ==
    [row EXCEPT !.completed = ~row.completed,
                !.completed_at = IF ~row.completed THEN <<time>> ELSE <<>>]

\* Every function of database.rs starts with db.conn.lock().unwrap(): it
\* waits while the mutex is held and panics when the mutex is poisoned.
ConnUsable == connLock = "free" /\ ~connPoisoned

Tick ==
    /\ now < MaxClock
    /\ now' = now + 1
    /\ UNCHANGED <<tasks, nextId, connLock, connPoisoned, fpc, ftext, frow,
                   parsed, dbRet>>
    /\ UNCHANGED <<cacheVars, appVars, parserVars,
                   downloadVars, voiceVars>>

add_task(text) ==
    /\ ConnUsable
    /\ nextId <= MaxTasks
    /\ tasks' = tasks \cup {InsertedRow(nextId, text, now)}
    /\ nextId' = nextId + 1
    /\ dbRet' = "ok"
    /\ UNCHANGED <<now, connLock, connPoisoned, fpc, ftext, frow, parsed>>
    /\ UNCHANGED <<cacheVars, appVars, parserVars,
                   downloadVars, voiceVars>>

update_task(id, text) ==
    /\ ConnUsable
    /\ tasks' = {IF row.id = id THEN [row EXCEPT !.text = text] ELSE row :
                 row \in tasks}
    /\ dbRet' = "ok"
    /\ UNCHANGED <<nextId, now, connLock, connPoisoned, fpc, ftext, frow, parsed>>
    /\ UNCHANGED <<cacheVars, appVars, parserVars,
                   downloadVars, voiceVars>>

delete_task(id) ==
    /\ ConnUsable
    /\ tasks' = {row \in tasks : row.id # id}
    /\ dbRet' = "ok"
    /\ UNCHANGED <<nextId, now, connLock, connPoisoned, fpc, ftext, frow, parsed>>
    /\ UNCHANGED <<cacheVars, appVars, parserVars,
                   downloadVars, voiceVars>>

\* toggle_task 116-149; the SELECT at 120-121 fails with QueryReturnedNoRows
\* when there is no such row, and the function returns that error.
toggle_task(id) ==
    /\ ConnUsable
    /\ IF \E row \in tasks : row.id = id
       THEN /\ tasks' = {IF row.id = id THEN ToggledRow(row, now) ELSE row :
                         row \in tasks}
            /\ dbRet' = "ok"
       ELSE /\ tasks' = tasks
            /\ dbRet' = "err"
    /\ UNCHANGED <<nextId, now, connLock, connPoisoned, fpc, ftext, frow, parsed>>
    /\ UNCHANGED <<cacheVars, appVars, parserVars,
                   downloadVars, voiceVars>>

\* find_and_delete_task 205-209: WHERE LOWER(text) LIKE ?1, with the
\* parameter search_pattern = format!("%{}%", search_text.to_lowercase()).
DeleteMatches(rows, search_text) ==
    LET pattern == search_pattern(to_lowercase(search_text))
    IN  {row \in rows : Like(SqlLower(row.text), pattern)}

\* ORDER BY CASE WHEN LOWER(text) = ?2 THEN 0 ELSE 1 END, completed ASC,
\* created_at DESC: the three sort keys of a row, smaller first.
SortKey(row, search_exact) ==
    <<IF SqlLower(row.text) = search_exact THEN 0 ELSE 1,
      IF row.completed THEN 1 ELSE 0,
      0 - row.created_at>>

KeyBefore(a, b) ==
    \/ a[1] < b[1]
    \/ a[1] = b[1] /\ a[2] < b[2]
    \/ a[1] = b[1] /\ a[2] = b[2] /\ a[3] < b[3]

\* LIMIT 1: the rows that may come first; rows with equal keys come in an
\* order SQL does not fix.
FirstRows(matches, search_exact) ==
    {row \in matches :
        \A other \in matches :
            ~KeyBefore(SortKey(other, search_exact), SortKey(row, search_exact))}

find_and_delete_task(search_text) ==
    /\ ConnUsable
    /\ LET matches == DeleteMatches(tasks, search_text)
       IN  IF matches # {}
           THEN \E row \in FirstRows(matches, to_lowercase(search_text)) :
                   /\ tasks' = tasks \ {row}
                   /\ dbRet' = "some"
           ELSE /\ tasks' = tasks
                /\ dbRet' = "none"
    /\ UNCHANGED <<nextId, now, connLock, connPoisoned, fpc, ftext, frow, parsed>>
    /\ UNCHANGED <<cacheVars, appVars, parserVars,
                   downloadVars, voiceVars>>

\* parse_transcript_to_actions yields TaskAction values; the transcripts of the
\* model are given by the actions they parse to.
Add(text) == [action |-> "Add", text |-> text]
Complete(text) == [action |-> "Complete", text |-> text]
Remove(text) == [action |-> "Remove", text |-> text]

TranscriptActions ==
    {<<Complete(Txt_Groceries), Add(Txt_BuyMilk)>>,
     <<Add(Txt_50), Remove(Txt_50), Add(Txt_BuyMilk), Complete(Txt_milk)>>}

\* parse_transcript_simple 287-311: Add becomes an incomplete task without
\* completed_at, Complete a completed task with completed_at, Remove nothing.
parse_transcript_simple(actions, time) ==
    LET kept == SelectSeq(actions, LAMBDA a : a.action # "Remove")
    IN  [i \in 1..Len(kept) |->
            IF kept[i].action = "Add"
            THEN Task(0, kept[i].text, FALSE, time, <<>>)
            ELSE Task(0, kept[i].text, TRUE, time, <<time>>)]

\* process_voice_log 69-72: parse; the loop over the tasks follows below.
process_voice_log(actions) ==
    /\ parsed = <<>>
    /\ fpc \in {"none", "panicked"}
    /\ parsed' = parse_transcript_simple(actions, now)
    /\ UNCHANGED <<tasks, nextId, now, connLock, connPoisoned, fpc, ftext, frow,
                   dbRet>>
    /\ UNCHANGED <<cacheVars, appVars, parserVars,
                   downloadVars, voiceVars>>

\* process_voice_log 87-98: a task that is not completed is added.
ApplyParsedAdd ==
    /\ parsed # <<>>
    /\ ~Head(parsed).completed
    /\ ConnUsable
    /\ nextId <= MaxTasks
    /\ tasks' = tasks \cup {InsertedRow(nextId, Head(parsed).text, now)}
    /\ nextId' = nextId + 1
    /\ dbRet' = "ok"
    /\ parsed' = Tail(parsed)
    /\ UNCHANGED <<now, connLock, connPoisoned, fpc, ftext, frow>>
    /\ UNCHANGED <<cacheVars, appVars, parserVars,
                   downloadVars, voiceVars>>

\* WHERE text LIKE ?1 AND completed = 0, with ?1 = format!("%{}%", text).
CompleteMatches(rows, text) ==
    {row \in rows : Like(row.text, search_pattern(text)) /\ ~row.completed}

\* process_voice_log 77-86 calls find_and_complete_task for a completed task.
\* find_and_complete_task 152-171: lock db.conn and SELECT ... LIMIT 1, which
\* yields any one of the matching rows or none.  The guard `conn` lives to the
\* end of the function.
find_and_complete_task ==
    /\ parsed # <<>>
    /\ Head(parsed).completed
    /\ ConnUsable
    /\ fpc \in {"none", "panicked"}
    /\ connLock' = "held"
    /\ ftext' = Head(parsed).text
    /\ IF CompleteMatches(tasks, Head(parsed).text) # {}
       THEN /\ \E row \in CompleteMatches(tasks, Head(parsed).text) :
                   frow' = <<row>>
            /\ fpc' = "matched"
       ELSE /\ frow' = <<>>
            /\ fpc' = "nomatch"
    /\ parsed' = Tail(parsed)
    /\ UNCHANGED <<tasks, nextId, now, connPoisoned, dbRet>>
    /\ UNCHANGED <<cacheVars, appVars, parserVars,
                   downloadVars, voiceVars>>

\* find_and_complete_task 173 and 177: toggle_task and add_task lock db.conn
\* again on the thread that holds it.  std::sync::Mutex::lock does not
\* return then: it blocks for ever ...
NestedLockBlocks ==
    /\ fpc \in {"matched", "nomatch"}
    /\ fpc' = "deadlocked"
    /\ dbRet' = "never"
    /\ UNCHANGED <<tasks, nextId, now, connLock, connPoisoned, ftext, frow, parsed>>
    /\ UNCHANGED <<cacheVars, appVars, parserVars,
                   downloadVars, voiceVars>>

\* ... or it panics; the unwinding drops the guard `conn`, which poisons the
\* mutex and frees it, and ends the command with its remaining tasks.
NestedLockPanics ==
    /\ fpc \in {"matched", "nomatch"}
    /\ fpc' = "panicked"
    /\ connLock' = "free"
    /\ connPoisoned' = TRUE
    /\ parsed' = <<>>
    /\ dbRet' = "panic"
    /\ UNCHANGED <<tasks, nextId, now, ftext, frow>>
    /\ UNCHANGED <<cacheVars, appVars, parserVars,
                   downloadVars, voiceVars>>

\* db.conn.lock().unwrap() on the poisoned mutex panics, in every function.
LockPoisoned ==
    /\ connPoisoned
    /\ connLock = "free"
    /\ dbRet' = "panic"
    /\ UNCHANGED <<tasks, nextId, now, connLock, connPoisoned, fpc, ftext, frow,
                   parsed>>
    /\ UNCHANGED <<cacheVars, appVars, parserVars,
                   downloadVars, voiceVars>>

\* The same in the loop of process_voice_log, which ends the command.
ApplyParsedPanics ==
    /\ parsed # <<>>
    /\ connPoisoned
    /\ connLock = "free"
    /\ parsed' = <<>>
    /\ dbRet' = "panic"
    /\ UNCHANGED <<tasks, nextId, now, connLock, connPoisoned, fpc, ftext, frow>>
    /\ UNCHANGED <<cacheVars, appVars, parserVars,
                   downloadVars, voiceVars>>

QuietEngine == InitEngine /\ file = [size \in ModelSizes |-> "absent"]

InitTasks ==
    /\ QuietEngine /\ InitDb /\ InitApp /\ InitExtractor /\ InitDownloader(NoFiles)
    /\ InitPipeline

NextDb ==
    \/ Tick
    \/ \E text \in TaskTexts : add_task(text)
    \/ \E id \in TaskIds, text \in TaskTexts : update_task(id, text)
    \/ \E id \in TaskIds : delete_task(id)
    \/ \E id \in TaskIds : toggle_task(id)
    \/ \E text \in SearchTexts : find_and_delete_task(text)
    \/ \E actions \in TranscriptActions : process_voice_log(actions)
    \/ ApplyParsedAdd
    \/ find_and_complete_task
    \/ NestedLockBlocks
    \/ NestedLockPanics
    \/ LockPoisoned
    \/ ApplyParsedPanics

SpecDb == InitTasks /\ [][NextDb]_vars

(***************************************************************************)
(* Claims about the task store, checked under SpecDb.                      *)
(***************************************************************************)

C6_CallEnds == fpc \in {"matched", "nomatch"} /\ fpc' # fpc

C6_Completed ==
    /\ dbRet' = "ok"
    /\ \E row \in tasks' :
          /\ row.completed
          /\ IF frow # <<>>
             THEN /\ row.id = frow[1].id
                  /\ tasks' = (tasks \ {frow[1]}) \cup {row}
             ELSE /\ row.text = ftext
                  /\ row.id \notin {old.id : old \in tasks}
                  /\ tasks' = tasks \cup {row}

\* C6 (as claimed): a complete action always results in exactly one completed
\* record.  Whatever the store holds, the step that ends a call of
\* find_and_complete_task returns a completed task: the incomplete matching
\* row it selected, now completed, or, when no row matched, one new row with
\* the given text, completed; no other row changes.
C6_CompletesOne == [][C6_CallEnds => C6_Completed]_vars

C7_CiContains(text, search_text) ==
    Contains(to_lowercase(text), to_lowercase(search_text))

C7_Candidates(search_text) ==
    {row \in tasks : C7_CiContains(row.text, search_text)}

C7_Key(row, search_text) ==
    <<IF to_lowercase(row.text) = to_lowercase(search_text) THEN 0 ELSE 1,
      IF row.completed THEN 1 ELSE 0,
      0 - row.created_at>>

C7_Best(search_text) ==
    {row \in C7_Candidates(search_text) :
        \A other \in C7_Candidates(search_text) :
            ~KeyBefore(C7_Key(other, search_text), C7_Key(row, search_text))}

C7_Step(search_text) ==
    IF C7_Candidates(search_text) = {}
    THEN tasks' = tasks
    ELSE \E row \in C7_Best(search_text) : tasks' = tasks \ {row}

\* C7 (as claimed): the remove tie-break.  find_and_delete_task(text) deletes
\* exactly one task, a best one among the tasks whose text contains text
\* without regard to case: a task whose whole text equals text without regard
\* to case comes first, then an incomplete task before a completed one, then
\* the task created last.
C7_RemoveBest ==
    [][\A s \in SearchTexts : find_and_delete_task(s) => C7_Step(s)]_vars

C8_Step(search_text) ==
    /\ tasks' \subseteq tasks
    /\ Cardinality(tasks \ tasks') <= 1
    /\ (\A row \in tasks : ~C7_CiContains(row.text, search_text))
          => (tasks' = tasks /\ dbRet' = "none")

\* C8 (as claimed): removing a task that does not exist is a silent no-op.
\* When no task's text contains the search text, find_and_delete_task returns
\* Ok(None) and leaves the store as it is; in every case it deletes at most
\* one row and changes no other.
C8_RemoveAbsentIsNoOp ==
    [][\A s \in SearchTexts : find_and_delete_task(s) => C8_Step(s)]_vars

C9_Consistent(task) == task.completed <=> (task.completed_at # <<>>)

\* C9: the TaskRecord invariant.  After any sequence of add_task, update_task,
\* toggle_task, delete_task, find_and_complete_task and find_and_delete_task
\* every stored task has completed_at set if and only if it is completed, and
\* so has every task the local parser produces.
C9_CompletedAtIffCompleted ==
    /\ \A row \in tasks : C9_Consistent(row)
    /\ \A i \in 1..Len(parsed) : C9_Consistent(parsed[i])

\* A completed row and an incomplete row are stored after a toggle_task, and
\* the parser has produced a completed task.
C9_Witness ==
    /\ \E row \in tasks : row.completed /\ row.completed_at # <<>>
    /\ \E row \in tasks : ~row.completed
    /\ \E i \in 1..Len(parsed) : parsed[i].completed

\* C18 (as claimed): a store operation that fails for one parsed task of an
\* utterance does not end the batch.  A task leaves the batch only when its
\* own store operation is called (add_task which returns, or
\* find_and_complete_task which takes the lock), one task at a time, and no
\* task is left waiting behind a call that never returns.
C18_TaskStep ==
    (parsed # <<>> /\ parsed' # parsed) =>
        /\ parsed' = Tail(parsed)
        /\ IF Head(parsed).completed
           THEN fpc' \in {"matched", "nomatch"} /\ ftext' = Head(parsed).text
           ELSE dbRet' = "ok" /\ nextId' = nextId + 1

C18_NoTaskLeftBehind == fpc = "deadlocked" => parsed = <<>>

C18_FailuresIsolated == [](C18_NoTaskLeftBehind) /\ [][C18_TaskStep]_vars

\* C25 (as claimed): find_and_complete_task terminates.  Every call returns a
\* result (the task, or an error of the store); it never blocks for ever
\* taking the db.conn mutex again, which the call itself holds when it calls
\* toggle_task, add_task, get_all_tasks or get_task_by_id.
C25_Terminates ==
    [][(fpc \in {"matched", "nomatch"} /\ fpc' # fpc) =>
          (dbRet' \in {"ok", "err"} /\ connLock' = "free")]_vars

\* C28 (as claimed): in the no-match branch of find_and_complete_task the
\* record that is marked completed is the record add_task has just inserted:
\* it has the id the insert assigned and the given text, whatever the store
\* holds, other incomplete tasks of the same created_at second included.
C28_MarksInserted ==
    [][(fpc = "nomatch" /\ fpc' # fpc) =>
          \E row \in tasks' :
              /\ row.id = nextId
              /\ row.text = ftext
              /\ row.completed
              /\ tasks' = tasks \cup {row}]_vars

\* The SELECT of find_and_complete_task never yields a completed row.
C29_SelectsIncomplete == fpc = "matched" => (frow # <<>> /\ ~frow[1].completed)

C29_MatchStep ==
    (fpc = "matched" /\ fpc' # fpc) =>
        /\ tasks' = (tasks \ {frow[1]}) \cup {ToggledRow(frow[1], now)}
        /\ nextId' = nextId

\* C29 (as claimed): when an incomplete task matching the text exists,
\* find_and_complete_task changes exactly that one task from incomplete to
\* completed, inserts no record and leaves every other record as it is; a
\* task that is already completed is never selected or modified.
C29_CompletesTheMatch == [](C29_SelectsIncomplete) /\ [][C29_MatchStep]_vars

(***************************************************************************)
(* The native app (native_main.rs): stop_recording, its worker thread, the *)
(* channel of ProcessingResult events and FlowStateApp::update.            *)
(***************************************************************************)
MaxUtterances == 2

\* ProcessingResult; a Tasks event carries the parsed tasks, here the
\* `completed` flag of each.
Event(kind, parsed_tasks, message) ==
    [kind |-> kind, tasks |-> parsed_tasks, message |-> message]

Transcript == Event("Transcript", <<>>, "")
Tasks(parsed_tasks) == Event("Tasks", parsed_tasks, "")
Error(message) == Event("Error", <<>>, message)
Done == Event("Done", <<>>, "")

\* What parse_transcript may return for a transcript.
ParsedLists == {<<>>, <<FALSE>>, <<TRUE>>, <<FALSE, TRUE>>, <<FALSE, FALSE>>}

\* The process lives until the thread of update panics.
ProcessAlive == ui # "panicked"

\* The default input configurations of the devices of the model: the sample
\* rate, in Hz.
SampleRates == {16000, 32000}

MaxCallbacks == 2

\* audio_data.len()
RECURSIVE FrameCount(_)
FrameCount(buffer) ==
    IF buffer = <<>> THEN 0 ELSE Head(buffer).frames + FrameCount(Tail(buffer))

\* stop_recording 486: max_val.abs().max(min_val.abs()), the largest
\* magnitude of a sample, in thousandths.
RECURSIVE PeakAmplitude(_)
PeakAmplitude(buffer) ==
    IF buffer = <<>> THEN 0
    ELSE LET rest == PeakAmplitude(Tail(buffer))
         IN  IF Head(buffer).peak > rest THEN Head(buffer).peak ELSE rest

\* Mutant of start_recording: the button starts a recording while an
\* utterance is being processed.
start_recording_while_processing(rate) ==
    /\ ui = "running"
    /\ ~is_recording
    /\ input_sample_rate' = rate
    /\ audio_buffer' = <<>>
    /\ captured' = <<>>
    /\ audio_data' = <<>>
    /\ audio_stream' = "some"
    /\ is_recording' = TRUE
    /\ recording_start' = "some"
    /\ UNCHANGED <<is_processing, processing_rx, error_message, status_message,
                   chan, sent, wpc, ui, added, utterances>>
    /\ UNCHANGED <<cacheVars, dbVars, parserVars,
                   downloadVars, voiceVars>>

\* hold-to-record 774-777 and start_recording 303-440: the sample rate of the
\* device is stored and the buffer cleared (343-347), then the stream is built
\* and played.
start_recording(rate) ==
    /\ ui = "running"
    /\ ~is_recording
    /\ ~is_processing
    /\ input_sample_rate' = rate
    /\ audio_buffer' = <<>>
    /\ captured' = <<>>
    /\ audio_data' = <<>>
    /\ audio_stream' = "some"
    /\ is_recording' = TRUE
    /\ recording_start' = "some"
    /\ UNCHANGED <<is_processing, processing_rx, error_message, status_message,
                   chan, sent, wpc, ui, added, utterances>>
    /\ UNCHANGED <<cacheVars, dbVars, parserVars,
                   downloadVars, voiceVars>>

\* start_recording 318-323 and 327-333: no input device, or no configuration;
\* the error is reported and the call returns.
StartRecordingNoDevice(error) ==
    /\ ui = "running"
    /\ ~is_recording
    /\ ~is_processing
    /\ error_message' = error
    /\ UNCHANGED <<is_recording, is_processing, processing_rx, status_message,
                   chan, sent, wpc, ui, added, utterances>>
    /\ UNCHANGED captureVars
    /\ UNCHANGED <<cacheVars, dbVars, parserVars,
                   downloadVars, voiceVars>>

\* Mutant of StartRecordingNoStream: the stream that could not be played is
\* retained.
StartRecordingKeepsStream(rate, error) ==
    /\ ui = "running"
    /\ ~is_recording
    /\ ~is_processing
    /\ input_sample_rate' = rate
    /\ audio_buffer' = <<>>
    /\ captured' = <<>>
    /\ audio_data' = <<>>
    /\ error_message' = error
    /\ audio_stream' = "some"
    /\ UNCHANGED <<recording_start, is_recording, is_processing, processing_rx,
                   status_message, chan, sent, wpc, ui, added, utterances>>
    /\ UNCHANGED <<cacheVars, dbVars, parserVars,
                   downloadVars, voiceVars>>

\* start_recording 343-347 and 415-435: the sample format is not supported,
\* or the stream cannot be built or played, after the rate was stored and the
\* buffer cleared; a stream that was built is dropped at the return.
StartRecordingNoStream(rate, error) ==
    /\ ui = "running"
    /\ ~is_recording
    /\ ~is_processing
    /\ input_sample_rate' = rate
    /\ audio_buffer' = <<>>
    /\ captured' = <<>>
    /\ audio_data' = <<>>
    /\ error_message' = error
    /\ UNCHANGED <<audio_stream, recording_start, is_recording, is_processing, processing_rx,
                   status_message, chan, sent, wpc, ui, added, utterances>>
    /\ UNCHANGED <<cacheVars, dbVars, parserVars,
                   downloadVars, voiceVars>>

\* The data callback of the input stream (357-375, 385-403): it runs while
\* the stream exists and appends to the shared buffer under its mutex.  What
\* one call appends after the conversion to mono is a run of frames, given by
\* its length and by the largest magnitude of a sample in it, in thousandths.
CaptureCallback(batch) ==
    /\ ProcessAlive
    /\ audio_stream = "some"
    /\ Len(audio_buffer) < MaxCallbacks
    /\ audio_buffer' = Append(audio_buffer, batch)
    /\ captured' = Append(captured, batch)
    /\ UNCHANGED <<audio_stream, input_sample_rate, audio_data,
                   recording_start>>
    /\ UNCHANGED <<is_recording, is_processing, processing_rx, error_message,
                   status_message, chan, sent, wpc, ui, added, utterances>>
    /\ UNCHANGED <<cacheVars, dbVars, parserVars,
                   downloadVars, voiceVars>>

\* Mutant of GateMessage: the peak of the recording is not checked.
GateMessageNoPeak(audio, rate) ==
    IF audio = <<>> THEN "No audio recorded"
    ELSE IF 10 * FrameCount(audio) < 3 * rate THEN "Recording too short"
    ELSE ""

\* stop_recording 473-492: the three quality gates.  duration_secs < 0.3 with
\* duration_secs = len / rate is 10 * len < 3 * rate, and a peak below 0.01 is
\* one below 10 thousandths.
GateMessage(audio, rate) ==
    IF audio = <<>> THEN "No audio recorded"
    ELSE IF 10 * FrameCount(audio) < 3 * rate THEN "Recording too short"
    ELSE IF PeakAmplitude(audio) < 10 THEN "Audio too quiet"
    ELSE ""

\* Mutant of DropStream: the stream stays.
KeepStream(stream) == stream

\* stop_recording 444: self.audio_stream = None drops the stream, which ends
\* the calls of its data callback.
DropStream(stream) == "none"

\* stop_recording 442-506, up to thread::spawn: the stream is dropped, then
\* the buffer is read (451-454) and checked.
stop_recording ==
    /\ ui = "running"
    /\ is_recording
    /\ is_recording' = FALSE
    /\ audio_stream' = DropStream(audio_stream)
    /\ recording_start' = "none"
    /\ audio_data' = audio_buffer
    /\ IF GateMessage(audio_buffer, input_sample_rate) # ""
       THEN /\ error_message' = GateMessage(audio_buffer, input_sample_rate)
            /\ UNCHANGED <<is_processing, processing_rx, status_message, chan,
                           sent, wpc, utterances>>
       ELSE /\ utterances < MaxUtterances
            /\ is_processing' = TRUE
            /\ status_message' = "Loading model..."
            /\ processing_rx' = "some"
            /\ chan' = <<>>
            /\ sent' = <<>>
            /\ wpc' = "spawned"
            /\ utterances' = utterances + 1
            /\ UNCHANGED error_message
    /\ UNCHANGED <<input_sample_rate, audio_buffer, captured, ui, added>>
    /\ UNCHANGED <<cacheVars, dbVars, parserVars,
                   downloadVars, voiceVars>>

\* tx.send(event): the event is queued for the receiver.
Send(event) ==
    /\ chan' = Append(chan, event)
    /\ sent' = Append(sent, event)

\* Worker 541-549: the transcript is empty; Error, then Done at 548.
WorkerTranscriptEmpty ==
    /\ ProcessAlive
    /\ wpc = "spawned"
    /\ Send(Error("No speech detected"))
    /\ wpc' = "finish"
    /\ UNCHANGED <<is_recording, is_processing, processing_rx, error_message,
                   status_message, ui, added, utterances>>
    /\ UNCHANGED captureVars
    /\ UNCHANGED <<cacheVars, dbVars, parserVars,
                   downloadVars, voiceVars>>

\* Worker 537-550: transcribe_audio returned a transcript, which is sent.
WorkerTranscribed ==
    /\ ProcessAlive
    /\ wpc = "spawned"
    /\ Send(Transcript)
    /\ wpc' = "transcribed"
    /\ UNCHANGED <<is_recording, is_processing, processing_rx, error_message,
                   status_message, ui, added, utterances>>
    /\ UNCHANGED captureVars
    /\ UNCHANGED <<cacheVars, dbVars, parserVars,
                   downloadVars, voiceVars>>

\* Mutant of WorkerTranscribeErr: the worker goes on to parse after the error.
WorkerTranscribeErrGoesOn ==
    /\ ProcessAlive
    /\ wpc = "spawned"
    /\ Send(Error("Transcription error"))
    /\ wpc' = "transcribed"
    /\ UNCHANGED <<is_recording, is_processing, processing_rx, error_message,
                   status_message, ui, added, utterances>>
    /\ UNCHANGED captureVars
    /\ UNCHANGED <<cacheVars, dbVars, parserVars,
                   downloadVars, voiceVars>>

\* Worker 563-565: transcribe_audio returned Err.
WorkerTranscribeErr ==
    /\ ProcessAlive
    /\ wpc = "spawned"
    /\ Send(Error("Transcription error"))
    /\ wpc' = "finish"
    /\ UNCHANGED <<is_recording, is_processing, processing_rx, error_message,
                   status_message, ui, added, utterances>>
    /\ UNCHANGED captureVars
    /\ UNCHANGED <<cacheVars, dbVars, parserVars,
                   downloadVars, voiceVars>>

\* Worker 552: tokio::runtime::Runtime::new().unwrap() panics when the
\* runtime cannot be built; the thread unwinds and drops tx.
WorkerRuntimePanics ==
    /\ ProcessAlive
    /\ wpc = "transcribed"
    /\ wpc' = "panicked"
    /\ UNCHANGED <<is_recording, is_processing, processing_rx, error_message,
                   status_message, chan, sent, ui, added, utterances>>
    /\ UNCHANGED captureVars
    /\ UNCHANGED <<cacheVars, dbVars, parserVars,
                   downloadVars, voiceVars>>

\* Worker 553-557: the parse succeeded.
WorkerParsed(parsed_tasks) ==
    /\ ProcessAlive
    /\ wpc = "transcribed"
    /\ Send(Tasks(parsed_tasks))
    /\ wpc' = "finish"
    /\ UNCHANGED <<is_recording, is_processing, processing_rx, error_message,
                   status_message, ui, added, utterances>>
    /\ UNCHANGED captureVars
    /\ UNCHANGED <<cacheVars, dbVars, parserVars,
                   downloadVars, voiceVars>>

\* Worker 558-560: the parse failed.
WorkerParseErr ==
    /\ ProcessAlive
    /\ wpc = "transcribed"
    /\ Send(Error("Parse error"))
    /\ wpc' = "finish"
    /\ UNCHANGED <<is_recording, is_processing, processing_rx, error_message,
                   status_message, ui, added, utterances>>
    /\ UNCHANGED captureVars
    /\ UNCHANGED <<cacheVars, dbVars, parserVars,
                   downloadVars, voiceVars>>

\* Worker 548 and 567: the last statement of the thread.
WorkerSendDone ==
    /\ ProcessAlive
    /\ wpc = "finish"
    /\ Send(Done)
    /\ wpc' = "ended"
    /\ UNCHANGED <<is_recording, is_processing, processing_rx, error_message,
                   status_message, ui, added, utterances>>
    /\ UNCHANGED captureVars
    /\ UNCHANGED <<cacheVars, dbVars, parserVars,
                   downloadVars, voiceVars>>

\* update 620-627: the tasks of a Tasks event are applied in order; add_task
\* for a task that is not completed, find_and_complete_task for a completed
\* one, which does not return (NestedLockBlocks, NestedLockPanics), so the
\* loop stops there.
RECURSIVE AddsBeforeComplete(_)
AddsBeforeComplete(parsed_tasks) ==
    IF parsed_tasks = <<>> \/ Head(parsed_tasks) THEN 0
    ELSE 1 + AddsBeforeComplete(Tail(parsed_tasks))

\* update 610-640: the effect of one received result on the fields of the app.
ApplyResult(result, st) ==
    CASE result.kind = "Transcript" -> [st EXCEPT !.status = "Transcribed"]
      [] result.kind = "Tasks" ->
            IF result.tasks = <<>>
            THEN [st EXCEPT !.error = "No tasks found in transcript"]
            ELSE IF \E i \in 1..Len(result.tasks) : result.tasks[i]
            THEN [st EXCEPT !.added = st.added + AddsBeforeComplete(result.tasks),
                            !.stuck = TRUE]
            ELSE [st EXCEPT !.added = st.added + Len(result.tasks),
                            !.status = "Added"]
      [] result.kind = "Error" -> [st EXCEPT !.error = result.message]
      [] OTHER -> [st EXCEPT !.done = TRUE]

RECURSIVE ApplyResults(_, _)
ApplyResults(results, st) ==
    IF results = <<>> \/ st.stuck THEN st
    ELSE ApplyResults(Tail(results), ApplyResult(Head(results), st))

\* update 596-601: an error older than five seconds is cleared.
Fields(expired) ==
    [status |-> status_message,
     error |-> IF expired THEN "" ELSE error_message,
     added |-> added, stuck |-> FALSE, done |-> FALSE]

\* update 587-650 without a receiver.
UpdateIdle(expired) ==
    /\ ui = "running"
    /\ processing_rx = "none"
    /\ error_message' = Fields(expired).error
    /\ UNCHANGED <<is_recording, is_processing, processing_rx, status_message,
                   chan, sent, wpc, ui, added, utterances>>
    /\ UNCHANGED captureVars
    /\ UNCHANGED <<cacheVars, dbVars, parserVars,
                   downloadVars, voiceVars>>

\* update 587-650 with a receiver: everything queued is received and applied;
\* Done clears is_processing and drops the receiver, otherwise it is put back.
update(expired) ==
    /\ ui = "running"
    /\ processing_rx = "some"
    /\ LET st == ApplyResults(chan, Fields(expired))
       IN  /\ ~st.stuck
           /\ chan' = <<>>
           /\ error_message' = st.error
           /\ added' = st.added
           /\ IF st.done
              THEN /\ is_processing' = FALSE
                   /\ status_message' = ""
                   /\ processing_rx' = "none"
              ELSE /\ status_message' = st.status
                   /\ UNCHANGED <<is_processing, processing_rx>>
    /\ UNCHANGED <<is_recording, sent, wpc, ui, utterances>>
    /\ UNCHANGED captureVars
    /\ UNCHANGED <<cacheVars, dbVars, parserVars,
                   downloadVars, voiceVars>>

\* update 604-627 when a completed task is applied: find_and_complete_task
\* blocks the thread of update for ever or panics in it; the receiver taken
\* at 604 is not put back.
UpdateNeverReturns(expired, outcome) ==
    /\ ui = "running"
    /\ processing_rx = "some"
    /\ LET st == ApplyResults(chan, Fields(expired))
       IN  /\ st.stuck
           /\ chan' = <<>>
           /\ error_message' = st.error
           /\ status_message' = st.status
           /\ added' = st.added
    /\ processing_rx' = "none"
    /\ ui' = outcome
    /\ UNCHANGED <<is_recording, is_processing, sent, wpc, utterances>>
    /\ UNCHANGED captureVars
    /\ UNCHANGED <<cacheVars, dbVars, parserVars,
                   downloadVars, voiceVars>>

InitNative ==
    /\ QuietEngine /\ InitDb /\ InitApp /\ InitExtractor /\ InitDownloader(NoFiles)
    /\ InitPipeline

NextApp ==
    \/ \E rate \in SampleRates : start_recording(rate)
    \/ \E error \in {"No audio device found", "Failed to get audio config"} :
          StartRecordingNoDevice(error)
    \/ \E rate \in SampleRates,
          error \in {"Unsupported sample format", "Failed to start recording",
                     "Failed to play stream"} :
          StartRecordingNoStream(rate, error)
    \/ \E batch \in {[frames |-> 4800, peak |-> 0], [frames |-> 4800, peak |-> 9],
                       [frames |-> 4800, peak |-> 10]} : CaptureCallback(batch)
    \/ stop_recording
    \/ WorkerTranscriptEmpty
    \/ WorkerTranscribed
    \/ WorkerTranscribeErr
    \/ WorkerRuntimePanics
    \/ \E parsed_tasks \in ParsedLists : WorkerParsed(parsed_tasks)
    \/ WorkerParseErr
    \/ WorkerSendDone
    \/ \E expired \in BOOLEAN : UpdateIdle(expired)
    \/ \E expired \in BOOLEAN : update(expired)
    \/ \E expired \in BOOLEAN, outcome \in {"blocked", "panicked"} :
          UpdateNeverReturns(expired, outcome)

SpecApp == InitNative /\ [][NextApp]_vars

\* The steps of the worker thread, which the operating system schedules.
WorkerStep ==
    \/ WorkerTranscriptEmpty
    \/ WorkerTranscribed
    \/ WorkerTranscribeErr
    \/ WorkerRuntimePanics
    \/ \E parsed_tasks \in ParsedLists : WorkerParsed(parsed_tasks)
    \/ WorkerParseErr
    \/ WorkerSendDone

\* The calls of update: 966-973 asks for a repaint after at most ten
\* seconds, so update is called again and again while the process lives.
UpdateStep ==
    \/ \E expired \in BOOLEAN : UpdateIdle(expired)
    \/ \E expired \in BOOLEAN : update(expired)
    \/ \E expired \in BOOLEAN, outcome \in {"blocked", "panicked"} :
          UpdateNeverReturns(expired, outcome)

\* The native app with a worker thread that goes on while it can and an
\* update that is called while it can be.
SpecAppFair == SpecApp /\ WF_vars(WorkerStep) /\ WF_vars(UpdateStep)

(***************************************************************************)
(* Claims about the worker, checked under SpecApp.                         *)
(***************************************************************************)

C10_Order(events) ==
    /\ \A i, j \in 1..Len(events) :
          (i < j /\ events[j].kind = "Transcript")
             => events[i].kind \notin {"Tasks", "Error", "Done"}
    /\ \A i \in 1..Len(events) : events[i].kind = "Done" => i = Len(events)
    /\ \A j \in 1..Len(events) :
          events[j].kind = "Tasks"
             => \E i \in 1..(j - 1) : events[i].kind = "Transcript"

C10_DoneSent ==
    wpc \in {"ended", "panicked"}
       => (Len(sent) > 0 /\ sent[Len(sent)].kind = "Done")

\* C10 (as claimed): event ordering.  For every utterance that reaches the
\* worker, the events it sends are ordered Transcript (if any) before Tasks
\* or Error, Tasks is never sent without a Transcript before it, and Done is
\* sent exactly once, as the last event: no event follows a Done, and a
\* worker that has terminated has sent Done.
C10_EventOrdering == C10_Order(sent) /\ C10_DoneSent

C11_Failed == sent # <<>> /\ sent[1] = Error("Transcription error")

C11_Events ==
    C11_Failed =>
        /\ wpc \in {"finish", "ended"}
        /\ sent = IF wpc = "ended"
                  THEN <<Error("Transcription error"), Done>>
                  ELSE <<Error("Transcription error")>>

C11_NoStoreOperation == C11_Failed => (added' = added /\ ui' = ui)

\* C11: an inference failure aborts the utterance.  When transcribe_audio
\* returns an error the worker sends exactly one Error and then Done, no
\* Transcript and no Tasks, and update performs no task-store operation
\* (no add_task, no find_and_complete_task) for that utterance.
C11_InferenceFailureAborts == [](C11_Events) /\ [][C11_NoStoreOperation]_vars

\* The worker has ended after a failed transcription and update has received
\* both events.
C11_Witness ==
    /\ wpc = "ended"
    /\ sent = <<Error("Transcription error"), Done>>
    /\ chan = <<>>
    /\ ~is_processing
    /\ error_message = "Transcription error"

C12_StopStep == is_recording /\ ~is_recording'

C12_Rejectable ==
    \/ audio_buffer = <<>>
    \/ 10 * FrameCount(audio_buffer) < 3 * input_sample_rate
    \/ \A i \in 1..Len(audio_buffer) : audio_buffer[i].peak < 10

C12_Rejected ==
    /\ error_message' \in
          {"No audio recorded", "Recording too short", "Audio too quiet"}
    /\ ~is_processing /\ ~is_processing'
    /\ UNCHANGED <<wpc, utterances, processing_rx, chan, sent>>

\* C12: the quality gate.  When the audio captured at stop_recording is empty,
\* shorter than 0.3 s at the capture sample rate, or has a peak amplitude
\* below 0.01 (silence of any length at any rate), the utterance is rejected
\* with an error message, no worker thread is spawned, is_processing stays
\* false and no transcription is called; a worker is spawned only for audio
\* that passes the three gates.
C12_QualityGate ==
    [][C12_StopStep =>
          /\ C12_Rejectable => C12_Rejected
          /\ wpc' = "spawned" => ~C12_Rejectable]_vars

\* A recording of 0.3 s of silence at 16 kHz has been rejected as too quiet
\* and no worker was ever spawned.
C12_Witness ==
    /\ ~is_recording
    /\ audio_data = <<[frames |-> 4800, peak |-> 0]>>
    /\ input_sample_rate = 16000
    /\ error_message = "Audio too quiet"
    /\ utterances = 0
    /\ wpc = "none"

C13_NoAppendAfterStop == ~is_recording => audio_buffer = audio_data

C13_SnapshotIsCapture ==
    (~is_recording /\ audio_stream = "none") => audio_data = captured

C13_AppendStep ==
    audio_buffer' # audio_buffer /\ audio_buffer' # <<>>
       => (is_recording /\ is_recording' /\ audio_stream = "some")

\* C13: stop halts capture.  stop_recording drops the input stream before it
\* reads the buffer, so the callback appends nothing after the stop and never
\* while the stop reads, and the copy handed to the worker holds exactly what
\* the callback appended between the start and the stop.
C13_StopHaltsCapture ==
    /\ [](C13_NoAppendAfterStop /\ C13_SnapshotIsCapture)
    /\ [][C13_AppendStep]_vars

\* A second recording was stopped after two callbacks and handed to a worker.
C13_Witness ==
    /\ ~is_recording
    /\ audio_stream = "none"
    /\ Len(audio_data) = 2
    /\ audio_data = captured
    /\ utterances = 2
    /\ wpc = "spawned"

C32_Exclusive == ~(is_recording /\ is_processing)

C32_StreamRetained == is_recording => audio_stream = "some"

\* No worker is running and no receiver is held: the last worker, if there
\* was one, has sent Done and update has received it.
C32_NoLiveChannel ==
    /\ processing_rx = "none"
    /\ chan = <<>>
    /\ wpc \in {"none", "ended"}
    /\ wpc = "ended" => (sent # <<>> /\ sent[Len(sent)] = Done)

C32_StartStep == (~is_recording /\ is_recording') => C32_NoLiveChannel

C32_SpawnStep == (wpc' = "spawned" /\ wpc # "spawned") => C32_NoLiveChannel

\* C32: recording and processing are exclusive.  is_recording and
\* is_processing are never both true; while is_recording is true a capture
\* stream is retained; a recording starts, and a worker with its result
\* channel is created, only when the Done of the previous worker has been
\* received, so at most one result channel is live at a time.
C32_RecordingExcludesProcessing ==
    /\ [](C32_Exclusive /\ C32_StreamRetained)
    /\ [][C32_StartStep /\ C32_SpawnStep]_vars

\* A second recording is running after the worker of the first utterance
\* ended and its Done was received.
C32_Witness ==
    /\ is_recording
    /\ audio_stream = "some"
    /\ utterances = 1
    /\ wpc = "ended"
    /\ processing_rx = "none"

C33_StartErrors ==
    {"No audio device found", "Failed to get audio config",
     "Unsupported sample format", "Failed to start recording",
     "Failed to play stream"}

C33_NothingRetained ==
    /\ audio_stream = "none" <=> ~is_recording
    /\ recording_start = "none" <=> ~is_recording

C33_FailedStep ==
    (error_message' \in C33_StartErrors /\ error_message' # error_message)
       => /\ audio_stream' = "none"
          /\ ~is_recording'
          /\ recording_start' = "none"
          /\ UNCHANGED <<is_processing, processing_rx, wpc>>

\* C33: start failure leaves no partial state.  On every failure path of
\* start_recording (no device, configuration error, unsupported sample
\* format, stream build failure, play failure) an error message is set, no
\* stream is retained, is_recording stays false and recording_start stays
\* unset.
C33_StartFailureLeavesNothing ==
    /\ [](C33_NothingRetained)
    /\ [][C33_FailedStep]_vars

\* The stream could not be played after an utterance had been processed: the
\* error is shown and nothing of a recording is retained.
C33_Witness ==
    /\ error_message = "Failed to play stream"
    /\ utterances = 1
    /\ ~is_recording
    /\ audio_stream = "none"
    /\ recording_start = "none"

\* C34 (as claimed): recording stop drains the buffer.  After stop_recording
\* returns, the shared sample buffer is empty.
C34_StopDrainsBuffer ==
    [][(is_recording /\ ~is_recording') => audio_buffer' = <<>>]_vars

\* C19 (as claimed): return to idle.  After every stop_recording that sets
\* is_processing, is_processing is eventually cleared, on every path of the
\* worker, a worker that terminates without sending Done included.
C19_ReturnToIdle == is_processing ~> ~is_processing

(***************************************************************************)
(* The action extractor (ollama.rs): a pure function from the text of an   *)
(* utterance to a list of task actions.                                    *)
(***************************************************************************)
\* char::len_utf8: the letters outside ASCII that the texts use take two
\* bytes each in UTF-8, an ASCII character one.
len_utf8(c) ==
    IF c \in (DOMAIN CyrillicLowerOf)
              \cup {CyrillicLowerOf[u] : u \in DOMAIN CyrillicLowerOf}
              \cup {"U+0443", "U+0437", "U+044B", "U+043A"}
    THEN 2 ELSE 1

\* str::len: the length in bytes.
RECURSIVE str_len(_)
str_len(str) == IF str = <<>> THEN 0 ELSE len_utf8(Head(str)) + str_len(Tail(str))

\* char::is_ascii_punctuation (the quotation mark, the backslash and the
\* grave accent are written by code point).
is_ascii_punctuation(c) ==
    c \in {"!", "U+0022", "#", "$", "%", "&", "'", "(",
           ")", "*", "+", ",", "-", ".", "/", ":",
           ";", "<", "=", ">", "?", "@", "[", "U+005C",
           "]", "^", "_", "U+0060", "{", "|", "}", "~"}

starts_with(str, pre) == Len(pre) <= Len(str) /\ SubSeq(str, 1, Len(pre)) = pre

ends_with(str, suf) ==
    Len(suf) <= Len(str) /\ SubSeq(str, Len(str) - Len(suf) + 1, Len(str)) = suf

\* str::find: the offset of the first occurrence of sub, -1 for None.
find(str, sub) ==
    LET hits == {i \in 0..(Len(str) - Len(sub)) : SubSeq(str, i + 1, i + Len(sub)) = sub}
    IN  IF hits = {} THEN -1 ELSE CHOOSE i \in hits : \A j \in hits : i <= j

RECURSIVE trim_start(_)
trim_start(str) ==
    IF str # <<>> /\ Head(str) = " " THEN trim_start(Tail(str)) ELSE str

\* str::trim_end_matches with a set of characters.
RECURSIVE trim_end_matches(_, _)
trim_end_matches(str, chars) ==
    IF str # <<>> /\ str[Len(str)] \in chars
    THEN trim_end_matches(SubSeq(str, 1, Len(str) - 1), chars)
    ELSE str

\* str::trim; the white space of the texts is the space.
trim(str) == trim_end_matches(trim_start(str), {" "})

\* str::split with a predicate on characters: the pieces between the
\* characters of seps, empty pieces included.
RECURSIVE split_chars(_, _)
split_chars(str, seps) ==
    LET hits == {i \in 1..Len(str) : str[i] \in seps}
    IN  IF hits = {} THEN <<str>>
        ELSE LET i == CHOOSE i \in hits : \A j \in hits : i <= j
             IN  <<SubSeq(str, 1, i - 1)>> \o
                 split_chars(SubSeq(str, i + 1, Len(str)), seps)

\* str::split with a string: the pieces between its occurrences, found
\* from the left without overlap.
RECURSIVE split_str(_, _)
split_str(str, sep) ==
    LET pos == find(str, sep)
    IN  IF pos = -1 THEN <<str>>
        ELSE <<SubSeq(str, 1, pos)>> \o
             split_str(SubSeq(str, pos + Len(sep) + 1, Len(str)), sep)

\* flat_map(|s| s.split(sep)).
RECURSIVE flat_map_split(_, _)
flat_map_split(parts, sep) ==
    IF parts = <<>> THEN <<>>
    ELSE split_str(Head(parts), sep) \o flat_map_split(Tail(parts), sep)

\* parse_transcript_to_actions 81-86.
complete_keywords ==
    <<
      <<"d", "o", "n", "e", " ", "w", "i", "t", "h">>,
      <<"f", "i", "n", "i", "s", "h", "e", "d", " ", "w", "i", "t", "h">>,
      <<"c", "o", "m", "p", "l", "e", "t", "e", "d">>,
      <<"f", "i", "n", "i", "s", "h", "e", "d">>,
      <<"d", "o", "n", "e">>,
      <<"m", "a", "r", "k", " ", "a", "s", " ", "d", "o", "n", "e">>,
      <<"m", "a", "r", "k", " ", "d", "o", "n", "e">>,
      <<"c", "h", "e", "c", "k", " ", "o", "f", "f">>,
      <<"c", "r", "o", "s", "s", "e", "d", " ", "o", "f", "f">>,
      <<"i", " ", "d", "i", "d">>,
      <<"i", "'", "v", "e", " ", "d", "o", "n", "e">>,
      <<"j", "u", "s", "t", " ", "d", "i", "d">>,
      <<"a", "l", "r", "e", "a", "d", "y", " ", "d", "i", "d">>,
      <<"t", "o", "o", "k", " ", "c", "a", "r", "e", " ", "o", "f">>,
      <<"h", "a", "n", "d", "l", "e", "d">>,
      <<"s", "o", "r", "t", "e", "d">>,
      <<"w", "r", "a", "p", "p", "e", "d", " ", "u", "p">>
    >>

\* parse_transcript_to_actions 89-92.
remove_keywords ==
    <<
      <<"d", "e", "l", "e", "t", "e">>,
      <<"r", "e", "m", "o", "v", "e">>,
      <<"c", "a", "n", "c", "e", "l">>,
      <<"g", "e", "t", " ", "r", "i", "d", " ", "o", "f">>,
      <<"d", "r", "o", "p">>,
      <<"f", "o", "r", "g", "e", "t", " ", "a", "b", "o", "u", "t">>,
      <<"n", "e", "v", "e", "r", " ", "m", "i", "n", "d">>,
      <<"s", "c", "r", "a", "t", "c", "h">>,
      <<"e", "r", "a", "s", "e">>
    >>

\* parse_transcript_to_actions 95-99.
add_keywords ==
    <<
      <<"a", "d", "d", " ", "t", "a", "s", "k">>,
      <<"n", "e", "w", " ", "t", "a", "s", "k">>,
      <<"c", "r", "e", "a", "t", "e", " ", "t", "a", "s", "k">>,
      <<"a", "d", "d">>,
      <<"n", "e", "e", "d", " ", "t", "o">>,
      <<"s", "h", "o", "u", "l", "d">>,
      <<"m", "u", "s", "t">>,
      <<"h", "a", "v", "e", " ", "t", "o">>,
      <<"g", "o", "t", "t", "a">>,
      <<"g", "o", "t", " ", "t", "o">>,
      <<"w", "a", "n", "t", " ", "t", "o">>,
      <<"g", "o", "i", "n", "g", " ", "t", "o">>,
      <<"r", "e", "m", "i", "n", "d", "e", "r", " ", "t", "o">>,
      <<"r", "e", "m", "i", "n", "d", " ", "m", "e", " ", "t", "o">>,
      <<"d", "o", "n", "'", "t", " ", "f", "o", "r", "g", "e", "t", " ", "t", "o">>
    >>

\* is_noise_transcript 170-180.
noise_phrases ==
    {
      <<"t", "h", "a", "n", "k", " ", "y", "o", "u">>,
      <<"t", "h", "a", "n", "k", "s", " ", "f", "o", "r", " ", "w", "a", "t", "c", "h", "i", "n", "g">>,
      <<"t", "h", "a", "n", "k", "s", " ", "f", "o", "r", " ", "l", "i", "s", "t", "e", "n", "i", "n", "g">>,
      <<"s", "u", "b", "s", "c", "r", "i", "b", "e">>,
      <<"l", "i", "k", "e", " ", "a", "n", "d", " ", "s", "u", "b", "s", "c", "r", "i", "b", "e">>,
      <<"p", "l", "e", "a", "s", "e", " ", "s", "u", "b", "s", "c", "r", "i", "b", "e">>,
      <<"s", "e", "e", " ", "y", "o", "u", " ", "n", "e", "x", "t", " ", "t", "i", "m", "e">>,
      <<"b", "y", "e">>,
      <<"g", "o", "o", "d", "b", "y", "e">>,
      <<"h", "e", "l", "l", "o">>,
      <<"h", "i", " ", "t", "h", "e", "r", "e">>,
      <<"u", "m">>,
      <<"u", "h">>,
      <<"a", "h">>,
      <<"o", "h">>,
      <<"h", "m", "m">>,
      <<"y", "o", "u">>,
      <<"o", "k", "a", "y">>,
      <<"o", "k">>,
      <<"m", "u", "s", "i", "c">>,
      <<"a", "p", "p", "l", "a", "u", "s", "e">>,
      <<"l", "a", "u", "g", "h", "t", "e", "r">>,
      <<"s", "i", "l", "e", "n", "c", "e">>,
      <<".">>,
      <<".", ".">>,
      <<".", ".", ".">>,
      <<"!">>,
      <<"?">>,
      <<"[", "U+043C", "U+0443", "U+0437", "U+044B", "U+043A", "U+0430", "]">>,
      <<"U+043C", "U+0443", "U+0437", "U+044B", "U+043A", "U+0430">>,
      <<"[", "m", "u", "s", "i", "c", "]">>,
      <<"[", "a", "p", "p", "l", "a", "u", "s", "e", "]">>,
      <<"[", "l", "a", "u", "g", "h", "t", "e", "r", "]">>,
      <<"[", "s", "i", "l", "e", "n", "c", "e", "]">>,
      <<"[", "i", "n", "a", "u", "d", "i", "b", "l", "e", "]">>,
      <<"[", "b", "l", "a", "n", "k", "_", "a", "u", "d", "i", "o", "]">>
    }

\* iter().any(|kw| text.contains(kw)).
any_contains(keywords, text) ==
    \E i \in DOMAIN keywords : Contains(text, keywords[i])

\* Mutant of strip_prefixes: every occurrence of a prefix is removed, not
\* only a leading one.
RECURSIVE strip_everywhere(_, _)
strip_everywhere(result, prefixes) ==
    IF prefixes = <<>> THEN result
    ELSE LET pos == find(to_lowercase(result), Head(prefixes))
         IN  IF pos = -1 THEN strip_everywhere(result, Tail(prefixes))
             ELSE strip_everywhere(
                      SubSeq(result, 1, pos) \o
                      SubSeq(result, pos + Len(Head(prefixes)) + 1, Len(result)),
                      prefixes)

\* clean_task_text 268-273: each prefix of the list, in its order, is cut
\* off when the text starts with it (in any case).
RECURSIVE strip_prefixes(_, _)
strip_prefixes(result, prefixes) ==
    IF prefixes = <<>> THEN result
    ELSE strip_prefixes(
             IF starts_with(to_lowercase(result), Head(prefixes))
             THEN SubSeq(result, Len(Head(prefixes)) + 1, Len(result))
             ELSE result,
             Tail(prefixes))

\* clean_task_text 279-281: the first character in upper case
\* (char::to_uppercase, for the letters of the texts).
capitalize(result) ==
    IF result = <<>> THEN result
    ELSE LET c == Head(result)
             upper == {u \in (DOMAIN AsciiLowerOf) : AsciiLowerOf[u] = c}
                      \cup {u \in (DOMAIN CyrillicLowerOf) : CyrillicLowerOf[u] = c}
         IN  <<IF upper = {} THEN c ELSE CHOOSE u \in upper : TRUE>> \o Tail(result)

\* clean_task_text 264-284.
clean_task_text(text) ==
    LET prefixes_to_remove ==
            << <<"t", "h", "e", " ">>,
               <<"a", " ">>,
               <<"a", "n", " ">>,
               <<"t", "o", " ">>,
               <<"t", "h", "a", "t", " ">>,
               <<"w", "h", "i", "c", "h", " ">> >>
    IN  trim(capitalize(trim_end_matches(
                 strip_prefixes(trim(text), prefixes_to_remove),
                 {".", "!", "?", ","})))

\* is_noise_transcript 166-203.
is_noise_transcript(text) ==
    LET text_lower == to_lowercase(text)
    IN  \/ starts_with(text_lower, <<"[">>) /\ ends_with(text_lower, <<"]">>)
        \/ text_lower \in noise_phrases \/ trim(text_lower) \in noise_phrases
        \/ str_len(trim(text)) < 3
        \/ \A i \in DOMAIN text : text[i] = " " \/ is_ascii_punctuation(text[i])

\* extract_task_from_trailing_pattern 52-58: the first pattern of the list
\* the text ends with is cut off.
RECURSIVE strip_trailing_pattern(_, _)
strip_trailing_pattern(text, patterns) ==
    IF patterns = <<>> THEN text
    ELSE IF ends_with(text, Head(patterns))
    THEN SubSeq(text, 1, Len(text) - Len(Head(patterns)))
    ELSE strip_trailing_pattern(text, Tail(patterns))

\* extract_task_from_trailing_pattern 45-72.
extract_task_from_trailing_pattern(text) ==
    LET trailing_patterns ==
            << <<" ", "i", "s", " ", "c", "o", "m", "p", "l", "e", "t", "e", "d">>,
               <<" ", "i", "s", " ", "f", "i", "n", "i", "s", "h", "e", "d">>,
               <<" ", "i", "s", " ", "d", "o", "n", "e">>,
               <<" ", "a", "r", "e", " ", "c", "o", "m", "p", "l", "e", "t", "e", "d">>,
               <<" ", "a", "r", "e", " ", "f", "i", "n", "i", "s", "h", "e", "d">>,
               <<" ", "a", "r", "e", " ", "d", "o", "n", "e">>,
               <<" ", "c", "o", "m", "p", "l", "e", "t", "e", "d">>,
               <<" ", "f", "i", "n", "i", "s", "h", "e", "d">>,
               <<" ", "d", "o", "n", "e">> >>
        result_trimmed == trim(strip_trailing_pattern(text, trailing_patterns))
        result_lower == to_lowercase(result_trimmed)
        cleaned == IF starts_with(result_lower, <<"t", "h", "e", " ">>)
                   THEN SubSeq(result_trimmed, 5, Len(result_trimmed))
                   ELSE IF starts_with(result_lower, <<"t", "h", "a", "t", " ">>)
                   THEN SubSeq(result_trimmed, 6, Len(result_trimmed))
                   ELSE result_trimmed
    IN  trim(cleaned)

\* extract_task_description 252-258: the first keyword OF THE LIST that
\* occurs in the text is looked up, and the text up to and including its
\* first occurrence is cut off.
RECURSIVE after_keyword(_, _, _)
after_keyword(text, text_lower, keywords) ==
    IF keywords = <<>> THEN text
    ELSE LET pos == find(text_lower, Head(keywords))
         IN  IF pos # -1
             THEN SubSeq(text, pos + Len(Head(keywords)) + 1, Len(text))
             ELSE after_keyword(text, text_lower, Tail(keywords))

\* extract_task_description 240-261.
extract_task_description(text, add_kw, complete_kw, remove_kw) ==
    clean_task_text(
        after_keyword(text, to_lowercase(text), add_kw \o complete_kw \o remove_kw))

\* parse_transcript_to_actions 107-114.
trailing_done_pattern(transcript_lower) ==
    LET trailing_suffixes ==
            { <<" ", "d", "o", "n", "e">>,
               <<" ", "i", "s", " ", "d", "o", "n", "e">>,
               <<" ", "a", "r", "e", " ", "d", "o", "n", "e">>,
               <<" ", "f", "i", "n", "i", "s", "h", "e", "d">>,
               <<" ", "i", "s", " ", "f", "i", "n", "i", "s", "h", "e", "d">>,
               <<" ", "c", "o", "m", "p", "l", "e", "t", "e", "d">>,
               <<" ", "i", "s", " ", "c", "o", "m", "p", "l", "e", "t", "e", "d">> }
    IN  \/ \E suf \in trailing_suffixes : ends_with(transcript_lower, suf)
        \/ transcript_lower = <<"d", "o", "n", "e">>

\* parse_transcript_to_actions 129-133: the parts of the utterance.
split_parts(text) ==
    flat_map_split(
        flat_map_split(split_chars(text, {",", ".", ";"}),
                       <<" ", "a", "n", "d", " ">>),
        <<" ", "U+0438", " ">>)

\* parse_transcript_to_actions 135-142: one Add for every part that is kept.
RECURSIVE add_parts(_)
add_parts(parts) ==
    IF parts = <<>> THEN <<>>
    ELSE LET task_text == clean_task_text(Head(parts))
         IN  (IF task_text # <<>> /\ str_len(task_text) >= 3
                 /\ ~is_noise_transcript(task_text)
              THEN <<Add(task_text)>> ELSE <<>>) \o add_parts(Tail(parts))

\* parse_transcript_to_actions 75-163.
parse_transcript_to_actions(text) ==
    LET transcript_lower == to_lowercase(text)
        has_complete == any_contains(complete_keywords, transcript_lower)
        has_remove == any_contains(remove_keywords, transcript_lower)
        has_add == any_contains(add_keywords, transcript_lower)
        trailing == trailing_done_pattern(transcript_lower)
        trailing_text == extract_task_from_trailing_pattern(transcript_lower)
        task_text == extract_task_description(text, add_keywords,
                                              complete_keywords, remove_keywords)
    IN  IF trailing /\ ~has_complete /\ ~has_remove /\ ~has_add
           /\ trailing_text # <<>>
        THEN <<Complete(trailing_text)>>
        ELSE IF ~has_complete /\ ~has_remove /\ ~has_add /\ ~trailing
        THEN add_parts(split_parts(text))
        ELSE IF task_text = <<>> THEN <<>>
        ELSE IF has_remove THEN <<Remove(task_text)>>
        ELSE IF has_complete THEN <<Complete(task_text)>>
        ELSE IF has_add THEN <<Add(task_text)>>
        ELSE <<>>

\* The utterances: up to MaxWords words of Words with one space between
\* them, and three longer utterances.
MaxWords == 3

Words ==
    {
      <<"d", "e", "l", "e", "t", "e">>,
      <<"a", "d", "d">>,
      <<"d", "o", "n", "e">>,
      <<"t", "h", "e">>,
      <<"r", "e", "p", "o", "r", "t">>,
      <<"m", "i", "l", "k">>,
      <<"u", "m">>,
      <<"[", "m", "u", "s", "i", "c", "]">>,
      <<"U+0434", "U+0430">>,
      <<",">>,
      <<"a", "n", "d">>,
      <<"i", "s">>
    }

RECURSIVE Phrases(_)
Phrases(n) ==
    IF n = 1 THEN Words
    ELSE {p \o <<" ">> \o w : p \in Phrases(n - 1), w \in Words}

Utt_report_is_done == <<"t", "h", "e", " ", "r", "e", "p", "o", "r", "t", " ", "i", "s", " ", "d", "o", "n", "e">>
Utt_buy_call_finish == <<"b", "u", "y", " ", "m", "i", "l", "k", ",", " ", "c", "a", "l", "l", " ", "m", "o", "m", " ", "a", "n", "d", " ", "f", "i", "n", "i", "s", "h", " ", "t", "h", "e", " ", "r", "e", "p", "o", "r", "t">>

Utterances ==
    UNION {Phrases(n) : n \in 1..MaxWords}
        \cup {Utt_report_is_done, Utt_buy_call_finish,
              <<"R", "e", "m", "o", "v", "e", " ", "t", "h", "e", " ", "m",
                "i", "l", "k", " ", "t", "a", "s", "k", " ", "I", " ", "w",
                "a", "n", "t", "e", "d", " ", "t", "o", " ", "a", "d", "d">>}

\* parse_transcript_to_actions returns the actions of the utterance.
ParseTranscript ==
    /\ ppc = "called"
    /\ extracted' = parse_transcript_to_actions(transcript)
    /\ ppc' = "returned"
    /\ UNCHANGED transcript
    /\ UNCHANGED <<cacheVars, dbVars, appVars,
                   downloadVars, voiceVars>>

\* The extractor has been called with an utterance.
InitParser ==
    /\ QuietEngine /\ InitDb /\ InitApp /\ InitDownloader(NoFiles) /\ InitPipeline
    /\ transcript \in Utterances
    /\ extracted = <<>>
    /\ ppc = "called"

NextParser == ParseTranscript

SpecParser == InitParser /\ [][NextParser]_vars

(***************************************************************************)
(* Claims about the action extractor, checked under SpecParser.            *)
(***************************************************************************)
\* The texts of the examples of claims C15, C16 and C17.
C15_Report == <<"R", "e", "p", "o", "r", "t">>
C16_Buy_milk == <<"B", "u", "y", " ", "m", "i", "l", "k">>
C16_Call_mom == <<"C", "a", "l", "l", " ", "m", "o", "m">>
C16_Finish_report == <<"F", "i", "n", "i", "s", "h", " ", "r", "e", "p", "o", "r", "t">>
C16_Finish_the_report == <<"F", "i", "n", "i", "s", "h", " ", "t", "h", "e", " ", "r", "e", "p", "o", "r", "t">>
C17_um == <<"u", "m">>
C17_music == <<"[", "m", "u", "s", "i", "c", "]">>

\* The texts that are no task: a listed filler phrase, a bracketed
\* annotation, only punctuation and white space, or under 3 characters.
C17_Rejected(text) ==
    \/ to_lowercase(text) \in noise_phrases
    \/ starts_with(text, <<"[">>) /\ ends_with(text, <<"]">>)
    \/ \A i \in DOMAIN text : text[i] = " " \/ is_ascii_punctuation(text[i])
    \/ Len(text) < 3

\* C14 (as claimed): an utterance that contains a remove keyword and an add
\* keyword yields a single Remove action and never an Add action.
C14_Priority ==
    (/\ ppc = "returned"
     /\ any_contains(remove_keywords, to_lowercase(transcript))
     /\ any_contains(add_keywords, to_lowercase(transcript)))
        => /\ Len(extracted) = 1
           /\ extracted[1].action = "Remove"

C35_Keywords == add_keywords \o complete_keywords \o remove_keywords

\* The keywords that occur in the utterance, and those of them whose first
\* occurrence is the earliest.
C35_Occurring(lower) ==
    {k \in 1..Len(C35_Keywords) : find(lower, C35_Keywords[k]) # -1}

C35_Earliest(lower) ==
    {k \in C35_Occurring(lower) :
        \A other \in C35_Occurring(lower) :
           find(lower, C35_Keywords[k]) <= find(lower, C35_Keywords[other])}

C35_Expected(text) ==
    {clean_task_text(
        SubSeq(text,
               find(to_lowercase(text), C35_Keywords[k]) + Len(C35_Keywords[k]) + 1,
               Len(text))) : k \in C35_Earliest(to_lowercase(text))}

\* C35 (as claimed): the keyword case uses the first occurrence.  When the
\* utterance contains a keyword, the text of the action is the cleaned
\* remainder after the keyword occurrence that is earliest in the utterance.
C35_FirstOccurrence ==
    (ppc = "returned" /\ C35_Occurring(to_lowercase(transcript)) # {})
       => \A i \in 1..Len(extracted) :
             extracted[i].text \in C35_Expected(transcript)

\* C15 (as claimed): an utterance made of keyword-free text followed by a
\* bare completion suffix yields exactly one Complete action, whose text is
\* the part before the suffix without a leading "the"/"that" and with its
\* first letter in upper case; "the report is done" yields Complete "Report".
C15_Suffixes ==
    {<<" ", "i", "s", " ", "d", "o", "n", "e">>,
     <<" ", "f", "i", "n", "i", "s", "h", "e", "d">>,
     <<" ", "c", "o", "m", "p", "l", "e", "t", "e", "d">>}

C15_KeywordFree(text) ==
    ~any_contains(complete_keywords \o remove_keywords \o add_keywords,
                  to_lowercase(text))

C15_TextBefore(body) ==
    LET t == trim(body)
        l == to_lowercase(t)
    IN  capitalize(trim(
            IF starts_with(l, <<"t", "h", "e", " ">>) THEN SubSeq(t, 5, Len(t))
            ELSE IF starts_with(l, <<"t", "h", "a", "t", " ">>) THEN SubSeq(t, 6, Len(t))
            ELSE t))

C15_Bodies ==
    {SubSeq(transcript, 1, Len(transcript) - Len(suf)) :
        suf \in {s \in C15_Suffixes : ends_with(to_lowercase(transcript), s)}}

C15_TrailingCompletion ==
    ppc = "returned" =>
        /\ \A body \in C15_Bodies :
               (C15_KeywordFree(body) /\ C15_TextBefore(body) # <<>>
                    /\ ~C17_Rejected(C15_TextBefore(body))) =>
                   extracted = <<Complete(C15_TextBefore(body))>>
        /\ transcript = Utt_report_is_done => extracted = <<Complete(C15_Report)>>

\* C16: an utterance with no keyword of any family is split on commas,
\* periods, semicolons and " and " / " U+0438 ", and the actions are, in the
\* order of the utterance, one Add with the cleaned text for each part whose
\* cleaned text is not noise and has at least 3 characters.
C16_NoKeyword ==
    /\ ppc = "returned"
    /\ C15_KeywordFree(transcript)

RECURSIVE C16_Adds(_)
C16_Adds(parts) ==
    IF parts = <<>> THEN <<>>
    ELSE LET t == clean_task_text(Head(parts))
         IN  (IF Len(t) >= 3 /\ ~is_noise_transcript(t) THEN <<Add(t)>> ELSE <<>>)
             \o C16_Adds(Tail(parts))

C16_Split ==
    C16_NoKeyword =>
        /\ \A i \in DOMAIN extracted : extracted[i].action = "Add"
        /\ SelectSeq(extracted, LAMBDA a : Len(a.text) >= 3)
               = C16_Adds(split_parts(transcript))

\* C16 (as claimed): ... and "buy milk, call mom and finish the report"
\* yields the Adds "Buy milk", "Call mom", "Finish report".
C16_Original ==
    /\ C16_Split
    /\ (ppc = "returned" /\ transcript = Utt_buy_call_finish) =>
           extracted = <<Add(C16_Buy_milk), Add(C16_Call_mom), Add(C16_Finish_report)>>

\* C16 (amended): ... and "buy milk, call mom and finish the report" yields
\* the Adds "Buy milk", "Call mom", "Finish the report": only a leading
\* article is cut off a part.
C16_NoKeywordSplit ==
    /\ C16_Split
    /\ (ppc = "returned" /\ transcript = Utt_buy_call_finish) =>
           extracted = <<Add(C16_Buy_milk), Add(C16_Call_mom),
                         Add(C16_Finish_the_report)>>

\* C16's case: the example utterance has been parsed into three actions.
C16_Witness ==
    /\ ppc = "returned"
    /\ transcript = Utt_buy_call_finish
    /\ Len(extracted) = 3
    /\ extracted[3] = Add(C16_Finish_the_report)

\* C17 (as claimed): in the no-keyword path a part whose cleaned text is a
\* listed filler phrase, a bracketed annotation, only punctuation and white
\* space, or shorter than 3 characters produces no action; "um" and
\* "[music]" yield no action at all.
C17_NoiseRejection ==
    C16_NoKeyword =>
        /\ \A i \in DOMAIN extracted : ~C17_Rejected(extracted[i].text)
        /\ transcript \in {C17_um, C17_music} => extracted = <<>>

(***************************************************************************)
(* The download of a model file: whisper::download_model (the command      *)
(* download_whisper_model) and the thread of FlowStateApp::start_download. *)
(***************************************************************************)
\* The chunks of a model file.
MaxChunks == 2

\* The errors in the loop over the stream: the stream fails, the write fails.
ErrorsAfterCreate == {"Download error", "Write error"}

\* whisper.rs 300-303 and native_main.rs 186-191: Path::exists.
check_model_exists(size) == model_file[size] # "absent"

\* download_model 254-261: a file that exists is returned as the model;
\* otherwise the request is sent.
download_model(size) ==
    /\ dlpc = "idle"
    /\ dlsize' = size
    /\ dlvia' = "command"
    /\ downloaded' = 0
    /\ IF check_model_exists(size)
       THEN dlresult' = "ok" /\ dlpc' = "idle"
       ELSE dlresult' = "none" /\ dlpc' = "send"
    /\ UNCHANGED <<model_file, download_completed, available_models>>
    /\ UNCHANGED loaded_file
    /\ UNCHANGED <<cacheVars, dbVars, appVars,
                   parserVars, voiceVars>>

\* start_download 196-225, from the Download button, which 914-930 shows for
\* a model that is not listed as installed and is not current_model (the
\* model of the last download, which nothing clears) while nothing is
\* downloaded.
start_download(size) ==
    /\ dlpc = "idle"
    /\ ~available_models[size]
    /\ ~(dlvia = "native" /\ dlsize = size)
    /\ dlsize' = size
    /\ dlvia' = "native"
    /\ downloaded' = 0
    /\ dlresult' = "none"
    /\ download_completed' = FALSE
    /\ dlpc' = "send"
    /\ UNCHANGED <<model_file, available_models>>
    /\ UNCHANGED loaded_file
    /\ UNCHANGED <<cacheVars, dbVars, appVars,
                   parserVars, voiceVars>>

\* download_model 267-278 and start_download 242-268: the download fails
\* before the file is created (send fails, the status is not a success,
\* File::create fails).
FailBeforeCreate(error) ==
    /\ dlpc = "send"
    /\ dlresult' = error
    /\ dlpc' = "idle"
    /\ UNCHANGED <<model_file, dlsize, dlvia, downloaded, download_completed,
                   available_models>>
    /\ UNCHANGED loaded_file
    /\ UNCHANGED <<cacheVars, dbVars, appVars,
                   parserVars, voiceVars>>

\* start_download 226: tokio::runtime::Runtime::new().unwrap() panics in the
\* download thread when the runtime cannot be built; the thread unwinds and
\* nothing of DownloadState is written again.
DownloadThreadPanics ==
    /\ dlpc = "send"
    /\ dlvia = "native"
    /\ dlpc' = "panicked"
    /\ UNCHANGED <<model_file, dlsize, dlvia, downloaded, dlresult,
                   download_completed, available_models>>
    /\ UNCHANGED loaded_file
    /\ UNCHANGED <<cacheVars, dbVars, appVars,
                   parserVars, voiceVars>>

\* download_model 277 and start_download 261: File::create makes the file,
\* or empties the one that is there.
CreateFile ==
    /\ dlpc = "send"
    /\ model_file' = [model_file EXCEPT ![dlsize] = "partial"]
    /\ dlpc' = "stream"
    /\ UNCHANGED <<dlsize, dlvia, downloaded, dlresult, download_completed,
                   available_models>>
    /\ UNCHANGED loaded_file
    /\ UNCHANGED <<cacheVars, dbVars, appVars,
                   parserVars, voiceVars>>

\* download_model 285-290 and start_download 277-287: a chunk is written.
WriteChunk ==
    /\ dlpc = "stream"
    /\ downloaded < MaxChunks
    /\ downloaded' = downloaded + 1
    /\ UNCHANGED <<model_file, dlpc, dlsize, dlvia, dlresult, download_completed,
                   available_models>>
    /\ UNCHANGED loaded_file
    /\ UNCHANGED <<cacheVars, dbVars, appVars,
                   parserVars, voiceVars>>

\* download_model 285-287 and start_download 279-292: the stream or the
\* write fails and the download ends with the error; the file File::create
\* made stays as it is.
FailAfterCreate(error) ==
    /\ dlpc = "stream"
    /\ dlresult' = error
    /\ dlpc' = "idle"
    /\ UNCHANGED <<model_file, dlsize, dlvia, downloaded, download_completed,
                   available_models>>
    /\ UNCHANGED loaded_file
    /\ UNCHANGED <<cacheVars, dbVars, appVars,
                   parserVars, voiceVars>>

\* download_model 296 and start_download 297-298: the stream has ended.
StreamEnds ==
    /\ dlpc = "stream"
    /\ downloaded = MaxChunks
    /\ model_file' = [model_file EXCEPT ![dlsize] = "complete"]
    /\ dlresult' = "ok"
    /\ download_completed' = (dlvia = "native")
    /\ dlpc' = "idle"
    /\ UNCHANGED <<dlsize, dlvia, downloaded, available_models>>
    /\ UNCHANGED loaded_file
    /\ UNCHANGED <<cacheVars, dbVars, appVars,
                   parserVars, voiceVars>>

\* get_or_create 44-59 for a model that is not cached, in a command that
\* runs beside the download: Path::exists is asked, and the file that exists
\* is given to WhisperContext::new_with_params as it is.
LoadModelFile(size) ==
    /\ loaded_file' = IF check_model_exists(size) THEN model_file[size]
                      ELSE "none"
    /\ UNCHANGED <<model_file, dlpc, dlsize, dlvia, downloaded, dlresult,
                   download_completed, available_models>>
    /\ UNCHANGED <<cacheVars, dbVars, appVars,
                   parserVars, voiceVars>>

\* update 895-898 and refresh_models 177-194: after a download that has ended well
\* the files are looked for again.
refresh_models ==
    /\ download_completed
    /\ available_models' = [size \in ModelSizes |-> check_model_exists(size)]
    /\ download_completed' = FALSE
    /\ UNCHANGED <<model_file, dlpc, dlsize, dlvia, downloaded, dlresult>>
    /\ UNCHANGED loaded_file
    /\ UNCHANGED <<cacheVars, dbVars, appVars,
                   parserVars, voiceVars>>

\* The app is started again: FlowStateApp::default 118-133 looks for the
\* files, DownloadState::default 37-49.
Restart ==
    /\ \/ dlpc = "idle" /\ dlresult # "none"
       \/ dlpc = "panicked"
    /\ available_models' = [size \in ModelSizes |-> check_model_exists(size)]
    /\ download_completed' = FALSE
    /\ dlresult' = "none"
    /\ dlpc' = "idle"
    /\ dlsize' = ""
    /\ dlvia' = ""
    /\ UNCHANGED <<model_file, downloaded>>
    /\ UNCHANGED loaded_file
    /\ UNCHANGED <<cacheVars, dbVars, appVars,
                   parserVars, voiceVars>>

\* The model files that are there when the app starts.
InitDownload ==
    /\ QuietEngine /\ InitDb /\ InitApp /\ InitExtractor /\ InitPipeline
    /\ \E files \in [ModelSizes -> {"absent", "complete"}] : InitDownloader(files)

NextDownload ==
    \/ \E size \in ModelSizes : download_model(size)
    \/ \E size \in ModelSizes : start_download(size)
    \/ \E error \in {"Download failed", "HTTP error", "Failed to create file"} :
          FailBeforeCreate(error)
    \/ DownloadThreadPanics
    \/ CreateFile
    \/ WriteChunk
    \/ \E error \in ErrorsAfterCreate : FailAfterCreate(error)
    \/ StreamEnds
    \/ \E size \in ModelSizes : LoadModelFile(size)
    \/ refresh_models
    \/ Restart

SpecDownload == InitDownload /\ [][NextDownload]_vars

(***************************************************************************)
(* Claims about the download, checked under SpecDownload.                  *)
(***************************************************************************)
\* C20 (as claimed): a failed download leaves no file at the model's path.
\* Whenever a download ends with an error after the file was created, no
\* file exists at the path of the model afterwards, and a later existence
\* check reports the model as not present.
C20_FailedStep ==
    (dlpc = "stream" /\ dlpc' = "idle" /\ dlresult' # "ok") =>
        model_file'[dlsize] = "absent"

C20_LaterCheck ==
    (dlpc = "idle" /\ dlresult \in ErrorsAfterCreate) => ~check_model_exists(dlsize)

C20_NoPartialFile == [](C20_LaterCheck) /\ [][C20_FailedStep]_vars

\* C37 (as claimed): a model file is never loaded while its download is in
\* progress.  For every interleaving of download_model(size) with
\* get_or_create(size), the existence check in get_or_create succeeds only
\* for a completely written file, so the loader is never given a partially
\* written model.
C37_LoaderGetsWholeFile == loaded_file # "partial"

\* DownloadState.is_downloading for the thread of start_download: set at 201,
\* cleared where the thread returns.
C38_IsDownloading == dlvia = "native" /\ dlpc # "idle"

\* DownloadState.error is set: the thread of start_download stored an error.
C38_Failed == dlvia = "native" /\ dlresult \notin {"none", "ok"}

\* The download thread ends: it was sending or streaming and is not any more.
C38_ThreadEnds ==
    dlvia = "native" /\ dlpc \in {"send", "stream"} /\ dlpc' \notin {"send", "stream"}

C38_OutcomeStep ==
    C38_ThreadEnds =>
        /\ download_completed' # C38_Failed'
        /\ ~C38_IsDownloading'

C38_NoLateProgress ==
    (/\ dlvia = "native" /\ dlvia' = "native"
     /\ dlpc \notin {"send", "stream"} /\ dlpc' \notin {"send", "stream"})
        => downloaded' = downloaded

C38_OneThread == (dlpc' = "send" /\ dlpc # "send") => ~C38_IsDownloading

C38_NeverBoth == ~(download_completed /\ C38_Failed)

\* C38 (as claimed): download progress is a stream ended by exactly one
\* terminal outcome.  Every download started by start_download ends with
\* either completed set or error set, never both; is_downloading is false
\* afterwards; no progress update follows the terminal outcome; and at most
\* one download thread runs at a time.
C38_OneTerminalOutcome ==
    /\ [](C38_NeverBoth)
    /\ [][C38_OutcomeStep /\ C38_NoLateProgress /\ C38_OneThread]_vars

(***************************************************************************)
(* process_voice_recording (commands.rs 251-331) from the transcription    *)
(* on: resample (whisper.rs 219-245), the removal check and                *)
(* parse_transcript with its remote parser (ollama.rs 404-583).  The       *)
(* worker of the native app resamples in place (native_main.rs 512-532).   *)
(***************************************************************************)
MaxSamples == 2

\* Mutant of new_lens: the ratio is taken the other way round.
new_lens_inverted(len, from_rate, to_rate) == {(len * from_rate) \div to_rate}

\* resample 224-225: ratio = from_rate / to_rate and new_len =
\* (len / ratio) as usize, computed in f64.  Both divisions round: where
\* len * to_rate / from_rate is a whole number q and the ratio is no binary
\* fraction, the quotient may come out just below q, and the cast cuts it
\* down to q - 1 (from_rate 7, to_rate 3 and len 35 give 14).  Elsewhere the
\* result is the floor of the exact quotient.
new_lens(len, from_rate, to_rate) ==
    LET q == (len * to_rate) \div from_rate
        RECURSIVE gcd(_, _)
        gcd(a, b) == IF b = 0 THEN a ELSE gcd(b, a % b)
        RECURSIVE pow2(_)
        pow2(d) == d = 1 \/ (d % 2 = 0 /\ pow2(d \div 2))
        exact_ratio == pow2(to_rate \div gcd(from_rate, to_rate))
    IN  IF (len * to_rate) % from_rate = 0 /\ q > 0 /\ ~exact_ratio
        THEN {q - 1, q}
        ELSE {q}

\* Mutant of resample: for equal rates a silent buffer of the same length.
resample_silent(buf, from_rate, to_rate, new_len) == [i \in 1..Len(buf) |-> 0]

\* resample 219-245 for one of the lengths new_lens allows.  Output i (from
\* 0) is taken at src_idx = i * ratio: idx is its whole part and frac the
\* rest, here the exact i * from_rate / to_rate.  The amplitudes of the model
\* are multiples of a unit every rate divides, so the interpolation is exact.
resample(buf, from_rate, to_rate, new_len) ==
    IF from_rate = to_rate THEN buf
    ELSE [i \in 1..new_len |->
            LET src == (i - 1) * from_rate
                idx == src \div to_rate
                num == src % to_rate
            IN  IF idx + 1 < Len(buf)
                THEN buf[idx + 1] + ((buf[idx + 2] - buf[idx + 1]) \div to_rate) * num
                ELSE IF idx < Len(buf) THEN buf[idx + 1]
                ELSE 0]

\* The worker of stop_recording, native_main.rs 508-532: the same to 16000 Hz
\* in f32; rates less than 1 Hz apart count as equal.
resample_native(audio, input_rate, new_len) ==
    IF input_rate = 16000 THEN audio
    ELSE [i \in 1..new_len |->
            LET src == (i - 1) * input_rate
                idx == src \div 16000
                num == src % 16000
            IN  IF idx + 1 < Len(audio)
                THEN audio[idx + 1] + ((audio[idx + 2] - audio[idx + 1]) \div 16000) * num
                ELSE IF idx < Len(audio) THEN audio[idx + 1]
                ELSE 0]

\* resample applied to a buffer and two rates.
ResampleCall(buf, from_rate, to_rate) ==
    /\ vpc = "idle"
    /\ \E new_len \in new_lens(Len(buf), from_rate, to_rate) :
          resampled' = resample(buf, from_rate, to_rate, new_len)
    /\ in_samples' = buf
    /\ in_rate' = from_rate
    /\ out_rate' = to_rate
    /\ native_last' = [len |-> 0, out |-> 0, idx |-> -1]
    /\ UNCHANGED <<vpc, use_ollama, removal_texts, requests, remote_error,
                   parse_result>>
    /\ UNCHANGED temp_audio
    /\ UNCHANGED <<cacheVars, dbVars, appVars, parserVars, downloadVars>>

\* The worker thread of stop_recording resamples the recording to 16000 Hz.
ResampleNative(audio, input_rate) ==
    /\ vpc = "idle"
    /\ \E new_len \in new_lens(Len(audio), input_rate, 16000) :
          /\ resampled' = resample_native(audio, input_rate, new_len)
          /\ native_last' =
                [len |-> Len(audio), out |-> new_len,
                 idx |-> IF input_rate = 16000 \/ new_len = 0 THEN -1
                         ELSE ((new_len - 1) * input_rate) \div 16000]
    /\ in_samples' = audio
    /\ in_rate' = input_rate
    /\ out_rate' = 16000
    /\ UNCHANGED <<vpc, use_ollama, removal_texts, requests, remote_error,
                   parse_result>>
    /\ UNCHANGED temp_audio
    /\ UNCHANGED <<cacheVars, dbVars, appVars, parserVars, downloadVars>>

\* The whole part of the f32 nearest to a / b, for naturals a and b > 0:
\* what `x as f32` (b = 1), an f32 multiplication or division of such values
\* and the cast `as usize` give.  An f32 has 24 significant bits; the value
\* is rounded to a multiple of its unit in the last place, ties to the even
\* multiple.
f32_trunc(a, b) ==
    LET nearest(n, d) ==
            IF 2 * (n % d) > d \/ (2 * (n % d) = d /\ (n \div d) % 2 = 1)
            THEN (n \div d) + 1 ELSE n \div d
        RECURSIVE ulp_above(_)
        ulp_above(u) ==
            IF a \div (b * u) < 16777216 THEN u ELSE ulp_above(2 * u)
        RECURSIVE scale_below(_)
        scale_below(k) ==
            IF (a * 2 * k) \div b < 16777216 THEN scale_below(2 * k) ELSE k
    IN  IF a = 0 THEN 0
        ELSE IF a \div b >= 16777216
        THEN nearest(a, b * ulp_above(2)) * ulp_above(2)
        ELSE nearest(a * scale_below(1), b) \div scale_below(1)

\* The same loop, native_main.rs 515-531, for a recording given by its
\* length, at an input rate whose ratio to 16000 an f32 holds exactly
\* (num / den with den a power of two).  new_len = (len as f32 / ratio) as
\* usize outputs are made, and output i reads at idx = (i as f32 * ratio) as
\* usize, which grows with i: the last output has the largest index.
ResampleNativeLength(len, input_rate) ==
    /\ vpc = "idle"
    /\ input_rate # 16000
    /\ LET RECURSIVE gcd(_, _)
           gcd(a, b) == IF b = 0 THEN a ELSE gcd(b, a % b)
           num == input_rate \div gcd(input_rate, 16000)
           den == 16000 \div gcd(input_rate, 16000)
           new_len == f32_trunc(f32_trunc(len, 1) * den, num)
       IN  /\ den \in {1, 2, 4, 8}
           /\ native_last' =
                 [len |-> len, out |-> new_len,
                  idx |-> IF new_len = 0 THEN -1
                          ELSE f32_trunc(f32_trunc(new_len - 1, 1) * num, den)]
    /\ in_samples' = <<>>
    /\ in_rate' = 0
    /\ out_rate' = 0
    /\ resampled' = <<>>
    /\ UNCHANGED <<vpc, use_ollama, removal_texts, requests, remote_error,
                   parse_result>>
    /\ UNCHANGED temp_audio
    /\ UNCHANGED <<cacheVars, dbVars, appVars, parserVars, downloadVars>>

\* process_voice_recording 259-275 returns an Err.  save_audio_file fails
\* before it has a file (227-242) or after File::create, in write_all
\* (244-245); or the file is written and the model name is not one of
\* from_str (263-264), or get_or_create returns Err (267), or
\* transcribe_with_context does, where the handler of map_err removes the
\* file (270-275).  Each of the others is a `?` that returns at once.
process_voice_recording_err(model_name, failure) ==
    /\ vpc = "idle"
    /\ temp_audio' =
          IF failure = "create" THEN "none"
          ELSE IF failure = "write" THEN "present"
          ELSE IF from_str(model_name) = "" THEN "present"
          ELSE IF failure = "model" THEN "present"
          ELSE "removed"
    /\ UNCHANGED <<vpc, in_samples, in_rate, out_rate, resampled, native_last,
                   use_ollama, removal_texts, requests, remote_error,
                   parse_result>>
    /\ UNCHANGED <<cacheVars, dbVars, appVars, parserVars, downloadVars>>

\* process_voice_recording 259-278 when nothing fails: the recording is
\* saved, transcribe_with_context 154-216 reads the samples of the file,
\* resamples them unless their rate is 16000 Hz and returns the text the
\* engine heard, and the file is removed (278).
transcribe_with_context(buf, sample_rate, text) ==
    /\ vpc = "idle"
    /\ IF sample_rate # 16000
       THEN \E new_len \in new_lens(Len(buf), sample_rate, 16000) :
               resampled' = resample(buf, sample_rate, 16000, new_len)
       ELSE resampled' = buf
    /\ in_samples' = buf
    /\ in_rate' = sample_rate
    /\ out_rate' = 16000
    /\ native_last' = [len |-> 0, out |-> 0, idx |-> -1]
    /\ transcript' = text
    /\ temp_audio' = "removed"
    /\ vpc' = "transcribed"
    /\ UNCHANGED <<use_ollama, removal_texts, requests, remote_error, parse_result>>
    /\ UNCHANGED <<cacheVars, dbVars, appVars, downloadVars, extracted, ppc>>

\* get_removal_actions 314-325: the texts of the extractor's Remove actions.
get_removal_actions(text) ==
    LET removes == SelectSeq(parse_transcript_to_actions(text),
                             LAMBDA a : a.action = "Remove")
    IN  [i \in 1..Len(removes) |-> removes[i].text]

\* process_voice_recording 280-297: when the lower-cased transcript contains
\* one of seven words, find_and_delete_task is called with each text of
\* get_removal_actions; otherwise with none.  The samples are gone by now.
CheckRemovals ==
    /\ vpc = "transcribed"
    /\ LET transcript_lower == to_lowercase(transcript)
           has_removal_keywords ==
               any_contains(<<<<"d", "e", "l", "e", "t", "e">>,
                              <<"r", "e", "m", "o", "v", "e">>,
                              <<"c", "a", "n", "c", "e", "l">>,
                              <<"d", "r", "o", "p">>,
                              <<"f", "o", "r", "g", "e", "t">>,
                              <<"s", "c", "r", "a", "t", "c", "h">>,
                              <<"e", "r", "a", "s", "e">>>>,
                            transcript_lower)
       IN  removal_texts' = IF has_removal_keywords
                            THEN get_removal_actions(transcript)
                            ELSE <<>>
    /\ vpc' = "removed"
    /\ in_samples' = <<>>
    /\ in_rate' = 0
    /\ out_rate' = 0
    /\ resampled' = <<>>
    /\ native_last' = [len |-> 0, out |-> 0, idx |-> -1]
    /\ UNCHANGED <<use_ollama, requests, remote_error, parse_result>>
    /\ UNCHANGED temp_audio
    /\ UNCHANGED <<cacheVars, dbVars, appVars, parserVars, downloadVars>>

\* Mutant of local_result: the error of the remote parser is returned.
local_result_err(text, time) == [kind |-> "err", tasks |-> <<>>]

\* parse_transcript 410 and 425: Ok(parse_transcript_simple(transcript)).
local_result(text, time) ==
    [kind |-> "ok",
     tasks |-> parse_transcript_simple(parse_transcript_to_actions(text), time)]

\* parse_transcript 404-414 (called at process_voice_recording 301): value
\* is what USE_OLLAMA holds ("false" when it is not set).  Unless it is
\* "true" in any case or "1" the local parser answers; otherwise
\* try_ollama_parse starts with GET /api/tags (437-442).
parse_transcript(value) ==
    /\ vpc = "removed"
    /\ use_ollama' = value
    /\ IF to_lowercase(value) # <<"t", "r", "u", "e">> /\ value # <<"1">>
       THEN /\ parse_result' = local_result(transcript, now)
            /\ vpc' = "parsed"
            /\ UNCHANGED requests
       ELSE /\ requests' = Append(requests, "GET /api/tags")
            /\ vpc' = "await_tags"
            /\ UNCHANGED parse_result
    /\ UNCHANGED <<in_samples, in_rate, out_rate, resampled, native_last, removal_texts,
                   remote_error>>
    /\ UNCHANGED temp_audio
    /\ UNCHANGED <<cacheVars, dbVars, appVars, parserVars, downloadVars>>

\* try_ollama_parse 437-490: the answer to GET /api/tags.  It fails when the
\* request fails or takes 3 s ("unreachable"), the status is no success, the
\* body is not JSON, it has no array "models", or the array lacks the model;
\* each is an Err, for which parse_transcript 422-426 returns the local
\* result.  Otherwise POST /api/generate is sent (514-521).
TagsResponds(outcome) ==
    /\ vpc = "await_tags"
    /\ IF outcome = "ok"
       THEN /\ requests' = Append(requests, "POST /api/generate")
            /\ vpc' = "await_generate"
            /\ UNCHANGED <<remote_error, parse_result>>
       ELSE /\ remote_error' = outcome
            /\ parse_result' = local_result(transcript, now)
            /\ vpc' = "parsed"
            /\ UNCHANGED requests
    /\ UNCHANGED <<in_samples, in_rate, out_rate, resampled, native_last, use_ollama,
                   removal_texts>>
    /\ UNCHANGED temp_audio
    /\ UNCHANGED <<cacheVars, dbVars, appVars, parserVars, downloadVars>>

\* try_ollama_parse 521-582: the answer to POST /api/generate.  The request
\* fails or takes 15 s, the status is no success, the body is not JSON, or
\* its text is a list in neither format: an Err, and the local result.  A
\* list of actions (554-574) gives a task for each "add" and "complete" in
\* any case and drops the rest; a list in the legacy format (577-591) gives a
\* task for each item.
GenerateResponds(reply) ==
    /\ vpc = "await_generate"
    /\ IF reply.kind = "error"
       THEN /\ remote_error' = reply.error
            /\ parse_result' = local_result(transcript, now)
       ELSE /\ UNCHANGED remote_error
            /\ parse_result' =
                  [kind |-> "ok",
                   tasks |->
                      IF reply.kind = "actions"
                      THEN LET kept == SelectSeq(reply.items,
                                           LAMBDA a : to_lowercase(a.action) \in {<<"a", "d", "d">>, <<"c", "o", "m", "p", "l", "e", "t", "e">>})
                           IN  [i \in 1..Len(kept) |->
                                  IF to_lowercase(kept[i].action) = <<"a", "d", "d">>
                                  THEN Task(0, kept[i].text, FALSE, now, <<>>)
                                  ELSE Task(0, kept[i].text, TRUE, now, <<now>>)]
                      ELSE [i \in 1..Len(reply.items) |->
                              Task(0, reply.items[i].text, reply.items[i].completed, now,
                                   IF reply.items[i].completed THEN <<now>> ELSE <<>>)]]
    /\ vpc' = "parsed"
    /\ UNCHANGED <<in_samples, in_rate, out_rate, resampled, native_last, use_ollama,
                   removal_texts, requests>>
    /\ UNCHANGED temp_audio
    /\ UNCHANGED <<cacheVars, dbVars, appVars, parserVars, downloadVars>>

\* process_voice_recording 303-331: the tasks are stored one by one, as in
\* process_voice_log (see SpecDb), and the command returns.
ReturnResults ==
    /\ vpc = "parsed"
    /\ vpc' = "idle"
    /\ transcript' = <<>>
    /\ use_ollama' = <<>>
    /\ removal_texts' = <<>>
    /\ requests' = <<>>
    /\ remote_error' = ""
    /\ parse_result' = [kind |-> "none", tasks |-> <<>>]
    /\ UNCHANGED <<in_samples, in_rate, out_rate, resampled, native_last,
                   temp_audio>>
    /\ UNCHANGED <<cacheVars, dbVars, appVars, downloadVars, extracted, ppc>>

\* The inputs of the model: buffers of up to MaxSamples samples at four
\* rates, six transcripts, six values of USE_OLLAMA and the answers of the
\* remote parser.
NextVoice ==
    LET Rates == {8000, 16000, 44100, 48000}
        Buffers == UNION {[1..n -> {0, 7056000}] : n \in 0..MaxSamples}
        Transcripts ==
            {<<"g", "e", "t", " ", "r", "i", "d", " ", "o", "f", " ", "t", "h", "e", " ", "m", "i", "l", "k">>,
             <<"D", "e", "l", "e", "t", "e", " ", "t", "h", "e", " ", "m", "i", "l", "k">>,
             <<"n", "e", "v", "e", "r", " ", "m", "i", "n", "d", " ", "t", "h", "e", " ", "r", "e", "p", "o", "r", "t">>,
             <<"b", "u", "y", " ", "m", "i", "l", "k", ",", " ", "c", "a", "l", "l", " ", "m", "o", "m", " ", "a", "n", "d", " ", "f", "i", "n", "i", "s", "h", " ", "t", "h", "e", " ", "r", "e", "p", "o", "r", "t">>,
             <<"d", "o", "n", "e", " ", "w", "i", "t", "h", " ", "e", "m", "a", "i", "l">>,
             <<"u", "m">>}
        EnvValues ==
            {<<"f", "a", "l", "s", "e">>, <<"0">>, <<"y", "e", "s">>, <<"t", "r", "u", "e">>, <<"T", "R", "U", "E">>, <<"1">>}
        TagsOutcomes == {"ok", "unreachable", "status", "not_json", "no_models",
                         "model_missing"}
        Replies ==
            {[kind |-> "error", error |-> e, items |-> <<>>] :
                e \in {"timeout", "api_error", "not_json", "unparsable"}}
            \cup {[kind |-> "actions", error |-> "", items |-> l] :
                    l \in {<<>>,
                           <<[action |-> <<"A", "d", "d">>, text |-> Txt_BuyMilk],
                             [action |-> <<"r", "e", "m", "o", "v", "e">>, text |-> Txt_milk],
                             [action |-> <<"c", "o", "m", "p", "l", "e", "t", "e">>, text |-> Txt_Groceries]>>}}
            \cup {[kind |-> "legacy", error |-> "", items |-> l] :
                    l \in {<<[text |-> Txt_BuyMilk, completed |-> FALSE],
                             [text |-> Txt_Groceries, completed |-> TRUE]>>}}
    IN  \/ \E buf \in Buffers, r1, r2 \in Rates : ResampleCall(buf, r1, r2)
        \/ \E buf \in Buffers, rate \in Rates : ResampleNative(buf, rate)
        \/ \E len \in {4800, 8388610, 16777217, 33554454},
              rate \in {8000, 32000, 48000} : ResampleNativeLength(len, rate)
        \/ \E model_name \in ModelNames,
              failure \in {"create", "write", "model", "transcribe"} :
              process_voice_recording_err(model_name, failure)
        \/ \E buf \in Buffers, rate \in Rates, text \in Transcripts :
              transcribe_with_context(buf, rate, text)
        \/ CheckRemovals
        \/ \E value \in EnvValues : parse_transcript(value)
        \/ \E outcome \in TagsOutcomes : TagsResponds(outcome)
        \/ \E reply \in Replies : GenerateResponds(reply)
        \/ ReturnResults

SpecVoice == InitTasks /\ [][NextVoice]_vars

(***************************************************************************)
(* Claims about process_voice_recording, resample and parse_transcript,    *)
(* checked under SpecVoice.                                                *)
(***************************************************************************)

\* What the local extractor gives for the transcript.
C21_Local ==
    [kind |-> "ok",
     tasks |-> parse_transcript_simple(parse_transcript_to_actions(transcript), now)]

C21_Enabled == use_ollama \in {<<"t", "r", "u", "e">>, <<"T", "R", "U", "E">>, <<"1">>}

\* C21: the remote-parser fallback.  parse_transcript never returns an
\* error; the remote parser is contacted only when USE_OLLAMA enables it;
\* one call makes at most one attempt (one request for the models, then at
\* most one for the parse, none repeated); and after any error, timeout or
\* unparsable answer of the remote parser the result is the local
\* extractor's result for the same transcript.
C21_RemoteFallback ==
    /\ parse_result.kind # "err"
    /\ requests # <<>> => C21_Enabled
    /\ requests \in {<<>>, <<"GET /api/tags">>,
                     <<"GET /api/tags", "POST /api/generate">>}
    /\ vpc = "parsed" => parse_result.kind = "ok"
    /\ (vpc = "parsed" /\ remote_error # "") => parse_result = C21_Local

\* C21's case: the remote parser was enabled, it answered the first request
\* and timed out on the second, and parse_transcript has returned the tasks
\* of the local extractor.
C21_Witness ==
    /\ vpc = "parsed"
    /\ C21_Enabled
    /\ remote_error = "timeout"
    /\ Len(requests) = 2
    /\ parse_result = C21_Local
    /\ Len(parse_result.tasks) = 3

\* C22: the resampling identity.  resample(x, r, r) returns x unchanged for
\* every buffer x and every rate r, and so does the resampling of the native
\* worker for a recording at 16000 Hz.
C22_ResampleIdentity == (in_rate # 0 /\ in_rate = out_rate) => resampled = in_samples

\* C22's case: a buffer of two different samples, resampled from 44100 Hz to
\* 44100 Hz.
C22_Witness ==
    /\ in_rate = 44100
    /\ out_rate = 44100
    /\ Len(in_samples) = 2
    /\ in_samples[1] # in_samples[2]
    /\ resampled = in_samples

\* C23: the resampling length.  For every buffer x and positive rates r1 and
\* r2, the length of resample(x, r1, r2) differs from
\* floor(len(x) * r2 / r1) by at most 1.
C23_ResampleLength ==
    in_rate > 0 =>
        (Len(resampled) - ((Len(in_samples) * out_rate) \div in_rate)) \in {-1, 0, 1}

\* C23's case: two samples at 8000 Hz have become twelve at 48000 Hz.
C23_Witness ==
    /\ in_rate = 8000
    /\ out_rate = 48000
    /\ Len(in_samples) = 2
    /\ Len(resampled) = 12

\* C36 (as claimed): the temporary audio file written by
\* process_voice_recording is removed on every exit path of the call,
\* including an invalid model name, a missing model file or load failure, and
\* a transcription error.  (Every action of the model runs the call up to a
\* return or past line 278, so no state lies between the save and the
\* removal.)
C36_TempFileRemoved == temp_audio # "present"

\* resample and transcribe_with_context: the source index of every output.
C39_ResampleInBuffer ==
    (in_rate # out_rate) =>
        \A i \in 1..Len(resampled) :
            ((i - 1) * in_rate) \div out_rate < Len(in_samples)

\* The worker's loop: the largest source index it read at.
C39_NativeInBuffer == native_last.out > 0 => native_last.idx < native_last.len

\* C39 (as claimed): resampling never extrapolates.  For every buffer and
\* every pair of positive rates, each output index i maps to the source index
\* floor(i * from / to), which lies inside the source buffer, so the 0.0
\* fallback is never produced.
C39_NeverExtrapolates == C39_ResampleInBuffer /\ C39_NativeInBuffer

\* C27 (as claimed): the removal pre-check preserves behaviour.  For every
\* transcript, each Remove(text) the extractor yields passes the keyword gate
\* of process_voice_recording and find_and_delete_task(text) is called: the
\* removals applied with the gate are those applied without it.
C27_GatePreservesRemovals ==
    vpc \in {"removed", "await_tags", "await_generate", "parsed"} =>
        removal_texts = get_removal_actions(transcript)

====
